---- MODULE Spec2Model ----
(***************************************************************************)
(* State-machine model of virtManager/engine.py (class vmmEngine): the     *)
(* connection registry, the refresh timer and its worker thread, the       *)
(* window counter, application exit, the dialog caches and the domain      *)
(* action handlers.                                                        *)
(*                                                                         *)
(* Event-loop handlers are atomic actions (GTK runs them one at a time on  *)
(* the main thread).  The refresh worker (vmmEngine._tick, run on its own  *)
(* thread) is split into one step per connection, so it interleaves with   *)
(* the event loop.  Every action records in lastOp what the call did: its  *)
(* name, its argument, what it returned, whether it raised to its caller,  *)
(* and the ordered list of effects it had on collaborators (dialogs,       *)
(* signals, persisted configuration, the GLib idle queue).                 *)
(***************************************************************************)
EXTENDS Integers, Sequences, FiniteSets, TLC

\* ------------------------------------------------------------------ bounds
MaxIdle == 2        \* pending GLib idle callbacks
MaxWindows == 2     \* |self.windows| explored
MaxThreads == 2     \* Thread objects kept (alive, or referenced by a closure)
MaxConns == 3       \* vmmConnection objects kept (registered, or referenced)
MaxSkipRun == 2     \* length up to which a run of skipped ticks is counted

URIS == {"qemu:///system", "xen:///"}
VMS == {"vm1"}
ThreadIds == 1..MaxThreads
ConnIds == 1..MaxConns

\* The confirmations a persisted preference can switch off.
Confirmations == {"poweroff", "forcepoweroff", "pause"}

\* engine.py:58-60
DETAILS_PERF == 1
DETAILS_CONFIG == 2
DETAILS_CONSOLE == 3

VARIABLES
    conns,              \* self.conns: uri -> entry
    conn_uris,          \* config.get_conn_uris(): persisted known-URI list
    conn_autoconnect,   \* URIs whose persisted autoconnect flag is set
    connState,          \* vmmConnection state, per connection object
    err,                \* self.err is not None
    systray,            \* self.systray is not None
    systray_visible,    \* self.systray.is_visible()
    windows,            \* self.windows
    windowManager,      \* self.windowManager is not None
    dialogs,            \* the other engine-wide dialogs that are not None
    confirm,            \* confirmations the persisted preferences still ask for
    timer,              \* self.timer (0: None)
    sources,            \* GLib timeout sources armed with self.tick
    _tick_thread,       \* self._tick_thread (0: None)
    _tick_thread_slow,  \* self._tick_thread_slow
    threads,            \* the Thread objects: position and locals of _tick
    idle,               \* GLib idle queue (self.idle_add), FIFO
    skipRun,            \* ticks skipped since the last tick that started a worker
    handlers,           \* the callbacks attached to conn-added, oldest first
    lastOp              \* what the last call did

vars == <<conns, conn_uris, conn_autoconnect, connState, err, systray,
          systray_visible, windows, windowManager, dialogs, confirm, timer, sources,
          _tick_thread, _tick_thread_slow, threads, idle, skipRun, handlers,
          lastOp>>

\* ----------------------------------------------------------------- helpers
NoOp == [op |-> "init", arg |-> "", ret |-> 0, raised |-> FALSE, ev |-> <<>>]

Op(name, arg, ret, raised, ev) ==
    [op |-> name, arg |-> arg, ret |-> ret, raised |-> raised, ev |-> ev]

RECURSIVE SetToSeq(_)
SetToSeq(S) ==
    IF S = {} THEN <<>>
    ELSE LET x == CHOOSE y \in S : TRUE IN <<x>> \o SetToSeq(S \ {x})

RECURSIVE Remove(_, _)
Remove(s, x) ==
    IF s = <<>> THEN <<>>
    ELSE IF Head(s) = x THEN Remove(Tail(s), x)
    ELSE <<Head(s)>> \o Remove(Tail(s), x)

Range(s) == {s[i] : i \in DOMAIN s}

Count(s, x) == Cardinality({i \in DOMAIN s : s[i] = x})

\* A connection object is kept while the registry or a queued idle callback
\* (a bound conn.close) still refers to it.
ConnInUse(cs, q) ==
    {cs[u].conn : u \in DOMAIN cs} \cup
    {q[i].conn : i \in {j \in DOMAIN q : q[j].kind = "conn.close"}}

\* connState with the objects nothing refers to any more dropped ("free").
Collect(st, cs, q) ==
    [c \in ConnIds |-> IF c \in ConnInUse(cs, q) THEN st[c] ELSE "free"]

\* vmmConnection(uri): a new object, distinct from every object in use.
NewConn(cs, q) == CHOOSE c \in ConnIds : c \notin ConnInUse(cs, q)

CanAllocConn == ConnIds \ ConnInUse(conns, idle) # {}

\* The entry add_conn_to_ui stores for a new connection.
NewEntry(c) ==
    [conn |-> c, windowHost |-> FALSE, windowDetails |-> <<>>,
     windowClone |-> FALSE]

\* dict assignment / del
Put(d, k, e) == [x \in DOMAIN d \cup {k} |-> IF x = k THEN e ELSE d[x]]
Del(d, k) == [x \in DOMAIN d \ {k} |-> d[x]]

\* --------------------------------------------------- persisted configuration
\* config.add_conn(uri): appends the URI to the known-URI list.
config_add_conn(uris, uri) == Append(uris, uri)

\* config.remove_conn(uri): drops the URI from the known-URI list.
config_remove_conn(uris, uri) == Remove(uris, uri)

\* ------------------------------------------------------- connection registry
\* self._check_conn(uri): the connection, or 0 for None.
_check_conn(cs, uri) == IF uri \in DOMAIN cs THEN cs[uri].conn ELSE 0

\* self._lookup_conn(uri): raises RuntimeError("Unknown connection URI")
\* when _check_conn finds nothing.
_lookup_conn(cs, uri) ==
    LET conn == _check_conn(cs, uri)
    IN  IF conn = 0 THEN [raised |-> TRUE, exc |-> "RuntimeError", conn |-> 0]
        ELSE [raised |-> FALSE, exc |-> "", conn |-> conn]

AddFaults == {"none", "vmmConnection", "conn.tick"}

\* The rest of add_conn_to_ui, after the _check_conn early return: construct the
\* connection, store its entry, wire its signals, conn.tick(), emit conn-added.
add_conn_to_ui_new(cs, st, q, uri, fault) ==
    IF fault = "vmmConnection"
    THEN [conns |-> cs, connState |-> st, ret |-> 0, raised |-> TRUE, ev |-> <<>>]
    ELSE LET c == NewConn(cs, q)
             cs2 == Put(cs, uri, NewEntry(c))
             st2 == [st EXCEPT ![c] = "disconnected"]
         IN  IF fault = "conn.tick"
             THEN [conns |-> cs2, connState |-> st2, ret |-> 0,
                   raised |-> TRUE, ev |-> <<>>]
             ELSE [conns |-> cs2, connState |-> st2, ret |-> c,
                   raised |-> FALSE, ev |-> << <<"emit", "conn-added", uri>> >>]

\* A variant that skips the _check_conn early return.
add_conn_to_ui_f_nocheck(cs, st, q, uri, fault) ==
    add_conn_to_ui_new(cs, st, q, uri, fault)

\* add_conn_to_ui(uri) as a function of the registry: the registry and the
\* connection states after the call, the connection returned (0: none), whether
\* the call raised, and the signals it emitted.  fault names the collaborator
\* call that raises, if any: the vmmConnection constructor or conn.tick().
add_conn_to_ui_f(cs, st, q, uri, fault) ==
    LET conn == _check_conn(cs, uri)
    IN  IF conn # 0
        THEN [conns |-> cs, connState |-> st, ret |-> conn, raised |-> FALSE,
              ev |-> <<>>]
        ELSE add_conn_to_ui_new(cs, st, q, uri, fault)

\* Public method, called from virt-manager's command line and _activate.
add_conn_to_ui(uri, fault) ==
    /\ uri \in DOMAIN conns \/ CanAllocConn
    /\ LET r == add_conn_to_ui_f(conns, connState, idle, uri, fault)
       IN  /\ conns' = r.conns
           /\ connState' = r.connState
           /\ lastOp' = Op("add_conn_to_ui", uri, r.ret, r.raised, r.ev)
    /\ UNCHANGED <<handlers, skipRun, confirm, dialogs, conn_uris, conn_autoconnect, err, systray, systray_visible,
                   windows, windowManager, timer, sources, _tick_thread,
                   _tick_thread_slow, threads, idle>>

ConnectFaults == AddFaults \cup {"config.add_conn", "set_autoconnect", "conn.open"}
AutoconnectArgs == {"None", "True", "False"}

\* A connect_to_uri that persists the URI on every call.
needs_add_conn_always(uris, uri) == TRUE

\* if conn.get_uri() not in (self.config.get_conn_uris() or [])
needs_add_conn(uris, uri) == uri \notin Range(uris)

\* A connect_to_uri whose failures reach the caller: no except clause.
connect_except_reraise(ok, conn, uri) ==
    IF ok THEN [ret |-> conn, raised |-> FALSE, ev |-> <<>>]
    ELSE [ret |-> 0, raised |-> TRUE, ev |-> <<>>]

\* How connect_to_uri ends: return conn at the end of the try block, or, from
\* except Exception, log the exception and return None.
connect_except(ok, conn, uri) ==
    IF ok THEN [ret |-> conn, raised |-> FALSE, ev |-> <<>>]
    ELSE [ret |-> 0, raised |-> FALSE,
          ev |-> << <<"logging.exception", "Error connecting to", uri>> >>]

\* connect_to_uri(uri, autoconnect, do_start): the whole body runs inside
\* try/except Exception.  fault names the call that raises, if it is reached.
connect_to_uri(uri, autoconnect, do_start, fault) ==
    /\ uri \in DOMAIN conns \/ CanAllocConn
    /\ LET fadd == IF fault \in AddFaults THEN fault ELSE "none"
           r == add_conn_to_ui_f(conns, connState, idle, uri, fadd)
           new == needs_add_conn(conn_uris, uri)
           \* the steps of the try block reached before the fault, if any
           didAdd == ~r.raised /\ new /\ fault # "config.add_conn"
           reachedAuto == ~r.raised /\ ~(new /\ fault = "config.add_conn")
           didAuto == reachedAuto /\ autoconnect # "None"
                        /\ fault # "set_autoconnect"
           reachedOpen == reachedAuto /\
                            ~(autoconnect # "None" /\ fault = "set_autoconnect")
           didOpen == reachedOpen /\ do_start /\ fault # "conn.open"
           ok == reachedOpen /\ ~(do_start /\ fault = "conn.open")
           e == connect_except(ok, IF ok THEN r.conns[uri].conn ELSE 0, uri)
       IN  /\ conns' = r.conns
           /\ conn_uris' = IF didAdd THEN config_add_conn(conn_uris, uri)
                           ELSE conn_uris
           /\ conn_autoconnect' =
                IF didAuto
                THEN IF autoconnect = "True"
                     THEN conn_autoconnect \cup {uri}
                     ELSE conn_autoconnect \ {uri}
                ELSE conn_autoconnect
           /\ connState' =
                IF didOpen /\ r.connState[r.conns[uri].conn] = "disconnected"
                THEN [r.connState EXCEPT ![r.conns[uri].conn] = "connecting"]
                ELSE r.connState
           /\ lastOp' = Op("connect_to_uri", uri, e.ret, e.raised,
                           r.ev
                           \o (IF didAdd THEN << <<"config.add_conn", uri, "">> >>
                               ELSE <<>>)
                           \o (IF didAuto
                               THEN << <<"set_autoconnect", uri, autoconnect>> >>
                               ELSE <<>>)
                           \o (IF didOpen THEN << <<"conn.open", uri, "">> >>
                               ELSE <<>>)
                           \o e.ev)
    /\ UNCHANGED <<handlers, skipRun, confirm, dialogs, err, systray, systray_visible, windows,
                   windowManager, timer, sources, _tick_thread,
                   _tick_thread_slow, threads, idle>>

\* ------------------------------------------------------------ cleanup_conn
CleanupFaults == {"none", "windowHost", "windowClone", "windowDetails", "conn"}

\* Truncate the teardown calls at the first one that raises (it was called, so
\* it is kept, marked as raising) and log the exception, as the bare except of
\* cleanup_conn does.
RECURSIVE UntilFault(_, _)
UntilFault(calls, fault) ==
    IF calls = <<>> THEN <<>>
    ELSE IF Head(calls)[2] = fault
         THEN << <<"cleanup raised", Head(calls)[2], Head(calls)[3]>>,
                 <<"logging.exception", "Error cleaning up conn in engine", "">> >>
         ELSE <<Head(calls)>> \o UntilFault(Tail(calls), fault)

\* The teardown calls of cleanup_conn(uri), in the order of the code: the host
\* dialog, the clone dialog, every details dialog, then the connection.
CleanupCalls(cs, uri) ==
    (IF cs[uri].windowHost THEN << <<"cleanup", "windowHost", uri>> >> ELSE <<>>)
    \o (IF cs[uri].windowClone THEN << <<"cleanup", "windowClone", uri>> >>
        ELSE <<>>)
    \o [i \in 1..Cardinality(DOMAIN cs[uri].windowDetails) |->
            <<"cleanup", "windowDetails", uri>>]
    \o << <<"cleanup", "conn", uri>> >>

\* cleanup_conn(uri): what it did.  An unknown uri raises KeyError inside the
\* try block, which the bare except logs as well.
cleanup_conn(cs, uri, fault) ==
    IF uri \notin DOMAIN cs
    THEN << <<"logging.exception", "Error cleaning up conn in engine", "">> >>
    ELSE UntilFault(CleanupCalls(cs, uri), fault)

\* remove_conn(src, uri): handler of the manager's remove-conn signal.
remove_conn(uri, fault) ==
    /\ IF uri \notin DOMAIN conns
       THEN \* del(self.conns[uri]) raises KeyError to the caller
            /\ lastOp' = Op("remove_conn", uri, 0, TRUE,
                            cleanup_conn(conns, uri, fault))
            /\ UNCHANGED <<confirm, dialogs, conns, conn_uris, connState>>
       ELSE /\ conns' = Del(conns, uri)
            /\ conn_uris' = config_remove_conn(conn_uris, uri)
            /\ connState' = Collect(connState, Del(conns, uri), idle)
            /\ lastOp' = Op("remove_conn", uri, 0, FALSE,
                            cleanup_conn(conns, uri, fault)
                            \o << <<"del", "conns", uri>>,
                                  <<"emit", "conn-removed", uri>>,
                                  <<"config.remove_conn", uri, "">> >>)
    /\ UNCHANGED <<handlers, skipRun, confirm, dialogs, conn_autoconnect, err, systray, systray_visible, windows,
                   windowManager, timer, sources, _tick_thread,
                   _tick_thread_slow, threads, idle>>

\* ------------------------------------------------------------ dialog caches
Pages == {"none", "performance", "config", "console", "default"}
PageArgs == {0, DETAILS_PERF, DETAILS_CONFIG, DETAILS_CONSOLE}
DialogFaults == {"none", "construct", "show"}

\* _get_host_dialog(uri): the cached host dialog, or a new one wired to the
\* window counter.  self.conns[uri] is read before _lookup_conn is called.
_get_host_dialog(cs, uri, fault) ==
    IF uri \notin DOMAIN cs
    THEN [conns |-> cs, raised |-> TRUE, exc |-> "KeyError", ev |-> <<>>]
    ELSE IF cs[uri].windowHost
    THEN [conns |-> cs, raised |-> FALSE, exc |-> "", ev |-> <<>>]
    ELSE IF fault = "construct"
    THEN [conns |-> cs, raised |-> TRUE, exc |-> "Exception", ev |-> <<>>]
    ELSE [conns |-> [cs EXCEPT ![uri].windowHost = TRUE],
          raised |-> FALSE, exc |-> "",
          ev |-> << <<"construct", "vmmHost", uri>>,
                    <<"connect", "host-opened", "increment_window_counter">>,
                    <<"connect", "host-closed", "decrement_window_counter">> >>]

\* _do_show_host(src, uri).  The third field of a show_err event is the
\* exception whose text the dialog shows.
_do_show_host(uri, fault) ==
    /\ LET g == _get_host_dialog(conns, uri, fault)
           failed == g.raised \/ fault = "show"
       IN  /\ conns' = g.conns
           /\ lastOp' = Op("_do_show_host", uri, 0, FALSE,
                           g.ev \o
                           (IF failed
                            THEN << <<"src.err.show_err",
                                      "Error launching host dialog",
                                      IF g.raised THEN g.exc
                                      ELSE "Exception">> >>
                            ELSE << <<"show", "windowHost", uri>> >>))
    /\ UNCHANGED <<handlers, skipRun, confirm, dialogs, conn_uris, conn_autoconnect, connState, err, systray,
                   systray_visible, windows, windowManager, timer, sources,
                   _tick_thread, _tick_thread_slow, threads, idle>>

\* A _get_details_dialog that never looks in the cache: a new dialog per call.
_get_details_dialog_nocache(cs, uri, uuid, fault) ==
    IF uri \notin DOMAIN cs
    THEN [conns |-> cs, raised |-> TRUE, exc |-> "KeyError", ev |-> <<>>]
    ELSE IF fault = "construct"
    THEN [conns |-> cs, raised |-> TRUE, exc |-> "Exception", ev |-> <<>>]
    ELSE [conns |-> [cs EXCEPT ![uri].windowDetails =
                        Put(@, uuid, [visible |-> FALSE, page |-> "none"])],
          raised |-> FALSE, exc |-> "",
          ev |-> << <<"construct", "vmmDetails", uri>>,
                    <<"connect", "details-opened", "increment_window_counter">>,
                    <<"connect", "details-closed", "decrement_window_counter">> >>]

\* _get_details_dialog(uri, uuid): the cached details dialog of the VM, or a new
\* one wired to the action handlers and the window counter.
_get_details_dialog(cs, uri, uuid, fault) ==
    IF uri \notin DOMAIN cs
    THEN [conns |-> cs, raised |-> TRUE, exc |-> "KeyError", ev |-> <<>>]
    ELSE IF uuid \in DOMAIN cs[uri].windowDetails
    THEN [conns |-> cs, raised |-> FALSE, exc |-> "", ev |-> <<>>]
    ELSE IF fault = "construct"
    THEN [conns |-> cs, raised |-> TRUE, exc |-> "Exception", ev |-> <<>>]
    ELSE [conns |-> [cs EXCEPT ![uri].windowDetails =
                        Put(@, uuid, [visible |-> FALSE, page |-> "none"])],
          raised |-> FALSE, exc |-> "",
          ev |-> << <<"construct", "vmmDetails", uri>>,
                    <<"connect", "details-opened", "increment_window_counter">>,
                    <<"connect", "details-closed", "decrement_window_counter">> >>]

\* The page _show_vm_helper activates for its page argument (0: None); "" when
\* the argument is none of the known pages.
PageOf(page) ==
    IF page = DETAILS_PERF THEN "performance"
    ELSE IF page = DETAILS_CONFIG THEN "config"
    ELSE IF page = DETAILS_CONSOLE THEN "console"
    ELSE IF page = 0 THEN "default"
    ELSE ""

\* A _show_vm_helper that activates the page on every call.
_show_vm_helper_always_nav(uri, uuid, page, forcepage, fault) ==
    /\ LET g == _get_details_dialog(conns, uri, uuid, fault)
       IN  IF g.raised
           THEN /\ conns' = g.conns
                /\ lastOp' = Op("_show_vm_helper", uri, 0, FALSE,
                                << <<"src.err.show_err",
                                     "Error launching details", g.exc>> >>)
           ELSE LET d == g.conns[uri].windowDetails[uuid]
                    nav == TRUE
                    d1 == IF nav /\ PageOf(page) # ""
                          THEN [d EXCEPT !.page = PageOf(page)] ELSE d
                    d2 == IF fault = "show" THEN d1
                          ELSE [d1 EXCEPT !.visible = TRUE]
                IN  /\ conns' = [g.conns EXCEPT
                                    ![uri].windowDetails[uuid] = d2]
                    /\ lastOp' = Op("_show_vm_helper", uri,
                                    IF fault = "show" THEN 0 ELSE 1, FALSE,
                                    g.ev
                                    \o (IF nav /\ PageOf(page) # ""
                                        THEN << <<"activate", PageOf(page), uri>> >>
                                        ELSE <<>>)
                                    \o (IF fault = "show"
                                        THEN << <<"src.err.show_err",
                                                  "Error launching details",
                                                  "Exception">> >>
                                        ELSE << <<"show", "windowDetails", uri>> >>))
    /\ UNCHANGED <<handlers, skipRun, confirm, dialogs, conn_uris, conn_autoconnect, connState, err, systray,
                   systray_visible, windows, windowManager, timer, sources,
                   _tick_thread, _tick_thread_slow, threads, idle>>

\* _show_vm_helper(src, uri, uuid, page, forcepage)
_show_vm_helper(uri, uuid, page, forcepage, fault) ==
    /\ LET g == _get_details_dialog(conns, uri, uuid, fault)
       IN  IF g.raised
           THEN /\ conns' = g.conns
                /\ lastOp' = Op("_show_vm_helper", uri, 0, FALSE,
                                << <<"src.err.show_err",
                                     "Error launching details", g.exc>> >>)
           ELSE LET d == g.conns[uri].windowDetails[uuid]
                    nav == forcepage \/ ~d.visible
                    d1 == IF nav /\ PageOf(page) # ""
                          THEN [d EXCEPT !.page = PageOf(page)] ELSE d
                    d2 == IF fault = "show" THEN d1
                          ELSE [d1 EXCEPT !.visible = TRUE]
                IN  /\ conns' = [g.conns EXCEPT
                                    ![uri].windowDetails[uuid] = d2]
                    /\ lastOp' = Op("_show_vm_helper", uri,
                                    IF fault = "show" THEN 0 ELSE 1, FALSE,
                                    g.ev
                                    \o (IF nav /\ PageOf(page) # ""
                                        THEN << <<"activate", PageOf(page), uri>> >>
                                        ELSE <<>>)
                                    \o (IF fault = "show"
                                        THEN << <<"src.err.show_err",
                                                  "Error launching details",
                                                  "Exception">> >>
                                        ELSE << <<"show", "windowDetails", uri>> >>))
    /\ UNCHANGED <<handlers, skipRun, confirm, dialogs, conn_uris, conn_autoconnect, connState, err, systray,
                   systray_visible, windows, windowManager, timer, sources,
                   _tick_thread, _tick_thread_slow, threads, idle>>

\* The user closes a details window (vmmDetails.close hides it).
details_close(uri, uuid) ==
    /\ uri \in DOMAIN conns
    /\ uuid \in DOMAIN conns[uri].windowDetails
    /\ conns[uri].windowDetails[uuid].visible
    /\ conns' = [conns EXCEPT ![uri].windowDetails[uuid].visible = FALSE]
    /\ lastOp' = Op("details.close", uri, 0, FALSE, <<>>)
    /\ UNCHANGED <<handlers, skipRun, confirm, dialogs, conn_uris, conn_autoconnect, connState, err, systray,
                   systray_visible, windows, windowManager, timer, sources,
                   _tick_thread, _tick_thread_slow, threads, idle>>

\* _do_show_clone(src, uri, uuid): the lookups run before the try block.
CloneFaults == {"none", "get_vm", "construct", "show"}

_do_show_clone(uri, uuid, fault) ==
    /\ LET l == _lookup_conn(conns, uri)
       IN  IF l.raised \/ fault = "get_vm"
           THEN /\ conns' = conns
                /\ lastOp' = Op("_do_show_clone", uri, 0, TRUE,
                                << <<"raise",
                                     IF l.raised THEN l.exc ELSE "KeyError",
                                     "">> >>)
           ELSE IF fault = "construct" /\ ~conns[uri].windowClone
           THEN /\ conns' = conns
                /\ lastOp' = Op("_do_show_clone", uri, 0, FALSE,
                                << <<"src.err.show_err",
                                     "Error setting clone parameters",
                                     "Exception">> >>)
           ELSE /\ conns' = [conns EXCEPT ![uri].windowClone = TRUE]
                /\ lastOp' = Op("_do_show_clone", uri, 0, FALSE,
                                (IF conns[uri].windowClone
                                 THEN << <<"set_orig_vm", uuid, uri>> >>
                                 ELSE << <<"construct", "vmmCloneVM", uri>> >>)
                                \o (IF fault = "show"
                                    THEN << <<"src.err.show_err",
                                              "Error setting clone parameters",
                                              "Exception">> >>
                                    ELSE << <<"show", "windowClone", uri>> >>))
    /\ UNCHANGED <<handlers, skipRun, confirm, dialogs, conn_uris, conn_autoconnect, connState, err, systray,
                   systray_visible, windows, windowManager, timer, sources,
                   _tick_thread, _tick_thread_slow, threads, idle>>

\* ----------------------------------------------------------- domain actions
\* conn.get_vm(uuid) raises for a VM the connection does not know.
GetVm == {"ok", "raise"}

\* The first two statements of every action handler, outside any try block:
\* conn = self._lookup_conn(uri); vm = conn.get_vm(uuid).  The exception they
\* raise to the caller of the handler, or "" for none.
LookupVm(cs, uri, getvm) ==
    IF _lookup_conn(cs, uri).raised THEN _lookup_conn(cs, uri).exc
    ELSE IF getvm = "raise" THEN "KeyError"
    ELSE ""

\* util.chkbox_helper(src, getcb, setcb, text1): no prompt when the preference
\* is off; else the user's answer, and an accepted prompt with "don't ask me
\* again" checked switches the preference off.
chkbox_helper(cf, pref, answer, dontask) ==
    IF pref \notin cf
    THEN [ok |-> TRUE, confirm |-> cf, ev |-> <<>>]
    ELSE [ok |-> answer,
          confirm |-> IF answer /\ dontask THEN cf \ {pref} ELSE cf,
          ev |-> << <<"chkbox_helper", pref,
                      IF answer THEN "yes" ELSE "no">> >>]

\* vmmAsyncJob.simple_async_noshow(callback, [], src, errorintro): runs the
\* callback off the event loop and reports its failure through src.err.
simple_async_noshow(call, errorintro, res) ==
    << <<"call", call, "">> >>
    \o (IF res = "fail" THEN << <<"src.err.show_err", errorintro, "">> >>
        ELSE <<>>)

OpResults == {"ok", "fail"}

\* A handler that runs the operation whatever the confirmation answered.
DomainAction_unconfirmed(name, pref, call, errorintro, uri, i) ==
    /\ LET exc == LookupVm(conns, uri, i.getvm)
           chk == IF pref = ""
                  THEN [ok |-> TRUE, confirm |-> confirm, ev |-> <<>>]
                  ELSE chkbox_helper(confirm, pref, i.answer, i.dontask)
       IN  IF exc # ""
           THEN /\ confirm' = confirm
                /\ lastOp' = Op(name, uri, 0, TRUE, << <<"raise", exc, "">> >>)
           ELSE /\ confirm' = chk.confirm
                /\ lastOp' = Op(name, uri, 0, FALSE,
                                chk.ev \o
                                simple_async_noshow(call, errorintro, i.res))
    /\ UNCHANGED <<handlers, skipRun, dialogs, conns, conn_uris, conn_autoconnect, connState, err,
                   systray, systray_visible, windows, windowManager, timer,
                   sources, _tick_thread, _tick_thread_slow, threads, idle>>

\* The handlers that look the VM up, ask for confirmation (pref; "" for none)
\* and run one hypervisor operation: destroy, suspend, resume, shutdown, reset.
DomainAction(name, pref, call, errorintro, uri, i) ==
    /\ LET exc == LookupVm(conns, uri, i.getvm)
           chk == IF pref = ""
                  THEN [ok |-> TRUE, confirm |-> confirm, ev |-> <<>>]
                  ELSE chkbox_helper(confirm, pref, i.answer, i.dontask)
       IN  IF exc # ""
           THEN /\ confirm' = confirm
                /\ lastOp' = Op(name, uri, 0, TRUE, << <<"raise", exc, "">> >>)
           ELSE /\ confirm' = chk.confirm
                /\ lastOp' = Op(name, uri, 0, FALSE,
                                chk.ev \o
                                (IF chk.ok
                                 THEN simple_async_noshow(call, errorintro, i.res)
                                 ELSE <<>>))
    /\ UNCHANGED <<handlers, skipRun, dialogs, conns, conn_uris, conn_autoconnect, connState, err,
                   systray, systray_visible, windows, windowManager, timer,
                   sources, _tick_thread, _tick_thread_slow, threads, idle>>

\* What the collaborators of a handler do during one call.  Only the runs that
\* differ are kept: an input the handler never reads on a run has its first
\* value there.
ActionInputs ==
    {i \in [getvm : GetVm, answer : BOOLEAN, dontask : BOOLEAN, res : OpResults] :
        /\ i.getvm = "raise" => i.answer /\ i.res = "ok"
        /\ ~i.answer => i.res = "ok"
        /\ i.dontask => i.answer /\ i.getvm = "ok"}

_do_destroy_domain(uri, i) ==
    DomainAction("_do_destroy_domain", "forcepoweroff", "vm.destroy",
                 "Error shutting down domain", uri, i)

_do_suspend_domain(uri, i) ==
    DomainAction("_do_suspend_domain", "pause", "vm.suspend",
                 "Error pausing domain", uri, i)

_do_resume_domain(uri, i) ==
    DomainAction("_do_resume_domain", "", "vm.resume",
                 "Error unpausing domain", uri, i)

_do_shutdown_domain(uri, i) ==
    DomainAction("_do_shutdown_domain", "poweroff", "vm.shutdown",
                 "Error shutting down domain", uri, i)

_do_reset_domain(uri, i) ==
    DomainAction("_do_reset_domain", "forcepoweroff", "vm.reset",
                 "Error resetting domain", uri, i)

\* A cancel callback that marks the job canceled whatever vm.abort_job() did.
_save_cancel_mark_always(vm, abort) ==
    IF ~vm THEN [canceled |-> FALSE, ev |-> <<>>]
    ELSE IF abort = "raise"
    THEN [canceled |-> TRUE,
          ev |-> << <<"call", "vm.abort_job", "raise">>,
                    <<"asyncjob.show_warning", "Error cancelling save job", "">> >>]
    ELSE [canceled |-> TRUE, ev |-> << <<"call", "vm.abort_job", "">> >>]

\* _save_cancel(asyncjob, vm): the cancel callback of a save job.  The job is
\* marked canceled only when vm.abort_job() did not raise.
_save_cancel(vm, abort) ==
    IF ~vm THEN [canceled |-> FALSE, ev |-> <<>>]
    ELSE IF abort = "raise"
    THEN [canceled |-> FALSE,
          ev |-> << <<"call", "vm.abort_job", "raise">>,
                    <<"asyncjob.show_warning", "Error cancelling save job", "">> >>]
    ELSE [canceled |-> TRUE, ev |-> << <<"call", "vm.abort_job", "">> >>]

SaveInputs ==
    {i \in [getvm : GetVm, managed : BOOLEAN, remote : BOOLEAN,
            answer : BOOLEAN, dontask : BOOLEAN, path : BOOLEAN,
            jobinfo : BOOLEAN, cancel : {"no", "ok", "raise"}, res : OpResults] :
        LET stops == i.getvm = "raise" \/ (~i.managed /\ i.remote) \/ ~i.answer
                       \/ (~i.managed /\ ~i.path)
        IN  /\ i.getvm = "raise" => i.managed /\ ~i.remote
            /\ i.managed => ~i.remote /\ i.path
            /\ (i.getvm = "raise" \/ (~i.managed /\ i.remote)) =>
                    i.answer /\ i.path
            /\ i.dontask => i.answer /\ i.getvm = "ok" /\ ~i.remote
            /\ ~i.answer => i.path
            /\ stops => ~i.jobinfo /\ i.res = "ok"
            /\ ~i.jobinfo => i.cancel = "no"
            /\ i.cancel = "ok" => i.res = "ok"}

\* _do_save_domain(src, uri, uuid).  i.cancel: whether the user presses cancel
\* while the job runs, and what vm.abort_job() then does; a canceled job
\* reports no error.
_do_save_domain(uri, i) ==
    /\ LET exc == LookupVm(conns, uri, i.getvm)
           chk == chkbox_helper(confirm, "poweroff", i.answer, i.dontask)
           cancel_cb == i.jobinfo
           c == IF cancel_cb /\ i.cancel # "no" THEN _save_cancel(TRUE, i.cancel)
                ELSE [canceled |-> FALSE, ev |-> <<>>]
           failed == ~c.canceled /\ i.res = "fail"
       IN  IF exc # ""
           THEN /\ confirm' = confirm
                /\ lastOp' = Op("_do_save_domain", uri, 0, TRUE,
                                << <<"raise", exc, "">> >>)
           ELSE IF ~i.managed /\ i.remote
           THEN /\ confirm' = confirm
                /\ lastOp' = Op("_do_save_domain", uri, 0, FALSE,
                                << <<"src.err.val_err", "remote save", "">> >>)
           ELSE /\ confirm' = chk.confirm
                /\ lastOp' = Op("_do_save_domain", uri, 0, FALSE,
                       chk.ev \o
                       (IF ~chk.ok THEN <<>>
                        ELSE IF ~i.managed /\ ~i.path
                        THEN << <<"browse_local", "none", "">> >>
                        ELSE (IF ~i.managed
                              THEN << <<"browse_local", "path", "">> >>
                              ELSE <<>>)
                             \o << <<"vmmAsyncJob",
                                     IF cancel_cb THEN "cancel_cb" ELSE "no cancel_cb",
                                     "">>,
                                   <<"call", "vm.save", "">> >>
                             \o c.ev
                             \o (IF c.canceled
                                 THEN << <<"job_canceled", "", "">> >> ELSE <<>>)
                             \o (IF failed
                                 THEN << <<"src.err.show_err",
                                           "Error saving domain", "">> >>
                                 ELSE <<>>)))
    /\ UNCHANGED <<handlers, skipRun, dialogs, conns, conn_uris, conn_autoconnect, connState, err,
                   systray, systray_visible, windows, windowManager, timer,
                   sources, _tick_thread, _tick_thread_slow, threads, idle>>

RestoreInputs ==
    {i \in [remote : BOOLEAN, path : BOOLEAN, res : OpResults] :
        /\ i.remote => i.path
        /\ (i.remote \/ ~i.path) => i.res = "ok"}

\* _do_restore_domain(src, uri)
_do_restore_domain(uri, i) ==
    /\ lastOp' =
         IF _lookup_conn(conns, uri).raised
         THEN Op("_do_restore_domain", uri, 0, TRUE,
                 << <<"raise", _lookup_conn(conns, uri).exc, "">> >>)
         ELSE Op("_do_restore_domain", uri, 0, FALSE,
                 IF i.remote
                 THEN << <<"src.err.val_err", "remote restore", "">> >>
                 ELSE IF ~i.path THEN << <<"browse_local", "none", "">> >>
                 ELSE << <<"browse_local", "path", "">> >>
                      \o simple_async_noshow("conn.restore",
                                             "Error restoring domain", i.res))
    /\ UNCHANGED <<handlers, skipRun, confirm, dialogs, conns, conn_uris, conn_autoconnect,
                   connState, err, systray, systray_visible, windows,
                   windowManager, timer, sources, _tick_thread,
                   _tick_thread_slow, threads, idle>>

RunInputs ==
    {i \in [getvm : GetVm, saved : BOOLEAN, res : OpResults, discard : BOOLEAN,
            remove : OpResults, res2 : OpResults] :
        /\ i.getvm = "raise" => i.saved /\ i.res = "ok"
        /\ (~i.saved \/ i.res = "ok") => ~i.discard
        /\ ~i.discard => i.remove = "ok"
        /\ (~i.discard \/ i.remove = "fail") => i.res2 = "ok"}

\* The regular startup of _do_run_domain.
RegularStart(res) == simple_async_noshow("vm.startup", "Error starting domain", res)

\* An errorcb that starts the domain again whatever removeSavedImage did.
errorcb_start_anyway(i) ==
    << <<"src.err.show_err", "Error restoring domain",
         IF i.discard THEN "yes" ELSE "no">> >>
    \o (IF ~i.discard THEN <<>>
        ELSE (IF i.remove = "fail"
              THEN << <<"call", "vm.removeSavedImage", "raise">>,
                      <<"src.err.show_err", "Error removing domain state", "">> >>
              ELSE << <<"call", "vm.removeSavedImage", "">> >>)
             \o << <<"enter", "_do_run_domain", "">> >>
             \o RegularStart(i.res2))

\* errorcb of _do_run_domain: the restore failed; ask whether to drop the saved
\* state, and if so remove it and enter _do_run_domain again, which then finds
\* no saved image.  A failure of either is reported.
errorcb(i) ==
    << <<"src.err.show_err", "Error restoring domain",
         IF i.discard THEN "yes" ELSE "no">> >>
    \o (IF ~i.discard THEN <<>>
        ELSE IF i.remove = "fail"
        THEN << <<"call", "vm.removeSavedImage", "raise">>,
                <<"src.err.show_err", "Error removing domain state", "">> >>
        ELSE << <<"call", "vm.removeSavedImage", "">>,
                <<"enter", "_do_run_domain", "">> >>
             \o RegularStart(i.res2))

\* _do_run_domain(src, uri, uuid)
_do_run_domain(uri, i) ==
    /\ lastOp' =
         IF LookupVm(conns, uri, i.getvm) # ""
         THEN Op("_do_run_domain", uri, 0, TRUE,
                 << <<"raise", LookupVm(conns, uri, i.getvm), "">> >>)
         ELSE Op("_do_run_domain", uri, 0, FALSE,
                 IF i.saved
                 THEN << <<"call", "vm.startup", "restore">> >>
                      \o (IF i.res = "fail" THEN errorcb(i) ELSE <<>>)
                 ELSE RegularStart(i.res))
    /\ UNCHANGED <<handlers, skipRun, confirm, dialogs, conns, conn_uris, conn_autoconnect,
                   connState, err, systray, systray_visible, windows,
                   windowManager, timer, sources, _tick_thread,
                   _tick_thread_slow, threads, idle>>

RebootInputs ==
    {i \in [getvm : GetVm, answer : BOOLEAN, dontask : BOOLEAN,
            reboot : {"ok", "nosupport", "error"}, manual : OpResults] :
        /\ i.getvm = "raise" => i.answer
        /\ (i.getvm = "raise" \/ ~i.answer) => i.reboot = "ok"
        /\ i.dontask => i.answer /\ i.getvm = "ok"
        /\ i.reboot # "nosupport" => i.manual = "ok"}

\* A reboot_cb that reports the error of the failed fallback instead.
reboot_cb_fallback_error(i) ==
    << <<"call", "vm.reboot", i.reboot>> >>
    \o (IF i.reboot = "ok" THEN <<>>
        ELSE IF i.reboot = "error"
        THEN << <<"src.err.show_err", "Error rebooting domain", "reboot_err">> >>
        ELSE << <<"call", "vm.manual_reboot", i.manual>> >>
             \o (IF i.manual = "fail"
                 THEN << <<"logging.exception", "Could not fake a reboot", "">>,
                         <<"src.err.show_err", "Error rebooting domain",
                           "manual_err">> >>
                 ELSE <<>>))

\* reboot_cb of _do_reboot_domain: vm.reboot(); when it fails as unsupported,
\* vm.manual_reboot().  The error it raises is built from reboot_err, the error
\* of vm.reboot(), in both places.
reboot_cb(i) ==
    << <<"call", "vm.reboot", i.reboot>> >>
    \o (IF i.reboot = "ok" THEN <<>>
        ELSE IF i.reboot = "error"
        THEN << <<"src.err.show_err", "Error rebooting domain", "reboot_err">> >>
        ELSE << <<"call", "vm.manual_reboot", i.manual>> >>
             \o (IF i.manual = "fail"
                 THEN << <<"logging.exception", "Could not fake a reboot", "">>,
                         <<"src.err.show_err", "Error rebooting domain",
                           "reboot_err">> >>
                 ELSE <<>>))

\* _do_reboot_domain(src, uri, uuid)
_do_reboot_domain(uri, i) ==
    /\ LET exc == LookupVm(conns, uri, i.getvm)
           chk == chkbox_helper(confirm, "poweroff", i.answer, i.dontask)
       IN  IF exc # ""
           THEN /\ confirm' = confirm
                /\ lastOp' = Op("_do_reboot_domain", uri, 0, TRUE,
                                << <<"raise", exc, "">> >>)
           ELSE /\ confirm' = chk.confirm
                /\ lastOp' = Op("_do_reboot_domain", uri, 0, FALSE,
                                chk.ev \o (IF chk.ok THEN reboot_cb(i) ELSE <<>>))
    /\ UNCHANGED <<handlers, skipRun, dialogs, conns, conn_uris, conn_autoconnect, connState, err,
                   systray, systray_visible, windows, windowManager, timer,
                   sources, _tick_thread, _tick_thread_slow, threads, idle>>

LaunchInputs ==
    {i \in [getvm : GetVm, fault : DialogFaults] :
        i.getvm = "raise" => i.fault = "none"}

\* _do_delete_domain(src, uri, uuid): nothing in it is inside a try block.
_do_delete_domain(uri, i) ==
    /\ LET exc == LookupVm(conns, uri, i.getvm)
           new == "delete_dialog" \notin dialogs
       IN  IF exc # ""
           THEN /\ dialogs' = dialogs
                /\ lastOp' = Op("_do_delete_domain", uri, 0, TRUE,
                                << <<"raise", exc, "">> >>)
           ELSE IF new /\ i.fault = "construct"
           THEN /\ dialogs' = dialogs
                /\ lastOp' = Op("_do_delete_domain", uri, 0, TRUE,
                                << <<"raise", "Exception", "">> >>)
           ELSE /\ dialogs' = dialogs \cup {"delete_dialog"}
                /\ lastOp' = Op("_do_delete_domain", uri, 0, i.fault = "show",
                                (IF new
                                 THEN << <<"construct", "vmmDeleteDialog", "">> >>
                                 ELSE <<>>)
                                \o (IF i.fault = "show"
                                    THEN << <<"raise", "Exception", "">> >>
                                    ELSE << <<"show", "delete_dialog", "">> >>))
    /\ UNCHANGED <<handlers, skipRun, confirm, conns, conn_uris, conn_autoconnect, connState, err,
                   systray, systray_visible, windows, windowManager, timer,
                   sources, _tick_thread, _tick_thread_slow, threads, idle>>

\* _do_show_migrate(src, uri, uuid): the whole body is inside the try block.
_do_show_migrate(uri, i) ==
    /\ LET exc == LookupVm(conns, uri, i.getvm)
           new == "windowMigrate" \notin dialogs
           failed == exc # "" \/ (new /\ i.fault = "construct")
       IN  IF failed
           THEN /\ dialogs' = dialogs
                /\ lastOp' = Op("_do_show_migrate", uri, 0, FALSE,
                                << <<"src.err.show_err",
                                     "Error launching migrate dialog",
                                     IF exc # "" THEN exc ELSE "Exception">> >>)
           ELSE /\ dialogs' = dialogs \cup {"windowMigrate"}
                /\ lastOp' = Op("_do_show_migrate", uri, 0, FALSE,
                                (IF new
                                 THEN << <<"construct", "vmmMigrateDialog", "">> >>
                                 ELSE <<>>)
                                \o << <<"set_state", "windowMigrate", "">> >>
                                \o (IF i.fault = "show"
                                    THEN << <<"src.err.show_err",
                                              "Error launching migrate dialog",
                                              "Exception">> >>
                                    ELSE << <<"show", "windowMigrate", "">> >>))
    /\ UNCHANGED <<handlers, skipRun, confirm, conns, conn_uris, conn_autoconnect, connState, err,
                   systray, systray_visible, windows, windowManager, timer,
                   sources, _tick_thread, _tick_thread_slow, threads, idle>>

\* ------------------------------------------------- signals of a connection
\* What conn.get_state() may answer when state-changed is delivered.
ConnStates == {"disconnected", "connecting", "active", "inactive"}

\* The connection the create dialog is bound to (self.windowCreate.conn), as
\* its URI; "" for None.
CreateConns == URIS \cup {""}

\* for vmuuid in self.conns[hvuri]["windowDetails"].keys(): cleanup and del
DetailsCleanups(cs, uri) ==
    [i \in 1..Cardinality(DOMAIN cs[uri].windowDetails) |->
        <<"details.cleanup", uri, SetToSeq(DOMAIN cs[uri].windowDetails)[i]>>]

\* A _do_conn_changed that empties the details cache whatever the state is.
_do_conn_changed_f_any_state(cs, ds, uri, state, bound) ==
    [conns |-> [cs EXCEPT ![uri].windowDetails = <<>>],
     ev |-> DetailsCleanups(cs, uri)
            \o (IF "windowCreate" \in ds /\ bound = uri
                THEN << <<"close", "windowCreate", uri>> >> ELSE <<>>)]

\* _do_conn_changed(conn) as a function of the registry, the engine-wide
\* dialogs, the connection's URI and state, and the create dialog's
\* connection: nothing for an active or connecting connection; else every
\* details dialog of the connection is cleaned up and deleted, and the create
\* dialog is closed when it is bound to the connection.
_do_conn_changed_f(cs, ds, uri, state, bound) ==
    IF state \in {"active", "connecting"}
    THEN [conns |-> cs, ev |-> <<>>]
    ELSE [conns |-> [cs EXCEPT ![uri].windowDetails = <<>>],
          ev |-> DetailsCleanups(cs, uri)
                 \o (IF "windowCreate" \in ds /\ bound = uri
                     THEN << <<"close", "windowCreate", uri>> >> ELSE <<>>)]

\* The connection of uri, now in the given state, emits state-changed and
\* _do_conn_changed(conn) runs.  self.conns[hvuri] raises KeyError for a
\* connection that is registered no more.
_do_conn_changed(uri, state, bound) ==
    /\ IF uri \notin DOMAIN conns
       THEN /\ state \notin {"active", "connecting"}
            /\ UNCHANGED <<conns, connState>>
            /\ lastOp' = Op("_do_conn_changed", uri, 0, TRUE,
                            << <<"raise", "KeyError", "">> >>)
       ELSE LET r == _do_conn_changed_f(conns, dialogs, uri, state, bound)
            IN  /\ conns' = r.conns
                /\ connState' = [connState EXCEPT ![conns[uri].conn] = state]
                /\ lastOp' = Op("_do_conn_changed", uri, 0, FALSE, r.ev)
    /\ UNCHANGED <<handlers, skipRun, confirm, dialogs, conn_uris,
                   conn_autoconnect, err, systray, systray_visible, windows,
                   windowManager, timer, sources, _tick_thread,
                   _tick_thread_slow, threads, idle>>

\* _do_vm_removed(conn, vmuuid): the details dialog of the VM, if there is
\* one, is cleaned up and deleted from the cache of the connection.
_do_vm_removed(uri, vmuuid) ==
    /\ IF uri \notin DOMAIN conns
       THEN /\ conns' = conns
            /\ lastOp' = Op("_do_vm_removed", uri, 0, TRUE,
                            << <<"raise", "KeyError", "">> >>)
       ELSE IF vmuuid \notin DOMAIN conns[uri].windowDetails
       THEN /\ conns' = conns
            /\ lastOp' = Op("_do_vm_removed", uri, 0, FALSE, <<>>)
       ELSE /\ conns' = [conns EXCEPT ![uri].windowDetails = Del(@, vmuuid)]
            /\ lastOp' = Op("_do_vm_removed", uri, 0, FALSE,
                            << <<"details.cleanup", uri, vmuuid>> >>)
    /\ UNCHANGED <<handlers, skipRun, confirm, dialogs, conn_uris,
                   conn_autoconnect, connState, err, systray, systray_visible,
                   windows, windowManager, timer, sources, _tick_thread,
                   _tick_thread_slow, threads, idle>>

\* _do_show_create(src, uri): the create dialog is made on first use
\* (_get_create_dialog) and shown for the connection.
_do_show_create(uri, fault) ==
    /\ LET new == "windowCreate" \notin dialogs
           failed == (new /\ fault = "construct") \/ fault = "show"
       IN  /\ dialogs' = IF new /\ fault = "construct" THEN dialogs
                         ELSE dialogs \cup {"windowCreate"}
           /\ lastOp' = Op("_do_show_create", uri, 0, FALSE,
                           (IF new /\ fault # "construct"
                            THEN << <<"construct", "vmmCreate", "">>,
                                    <<"connect", "action-show-vm", "_do_show_vm">> >>
                            ELSE <<>>)
                           \o (IF failed
                               THEN << <<"src.err.show_err",
                                         "Error launching manager", "Exception">> >>
                               ELSE << <<"show", "windowCreate", uri>> >>))
    /\ UNCHANGED <<handlers, skipRun, confirm, conns, conn_uris,
                   conn_autoconnect, connState, err, systray, systray_visible,
                   windows, windowManager, timer, sources, _tick_thread,
                   _tick_thread_slow, threads, idle>>

\* ---------------------------------------------------------------- observers
\* The callbacks the model attaches to the engine's signals.
Observers == {"inspection.conn_added", "obs1", "obs2"}
SignalNames == {"conn-added", "conn-removed"}

\* self.emit("conn-added", conn): the signal runs every callback attached to
\* it, oldest first.
emit_conn_added(hs, uri) ==
    [i \in 1..Len(hs) |-> <<"conn-added", hs[i], uri>>]

\* for uri in self.conns.keys(): self.emit("conn-added", ...)
RECURSIVE emit_each(_, _)
emit_each(hs, uris) ==
    IF uris = <<>> THEN <<>>
    ELSE emit_conn_added(hs, Head(uris)) \o emit_each(hs, Tail(uris))

\* A connect that only attaches the callback.
connect_f_attach_only(hs, cs, name, callback) ==
    [handlers |-> IF name = "conn-added" THEN Append(hs, callback) ELSE hs,
     ev |-> <<>>]

\* connect(name, callback) as a function of the attached callbacks and the
\* registry: the callback is attached first; then, for conn-added, the signal
\* is emitted once per registered connection.
connect_f(hs, cs, name, callback) ==
    LET hs2 == IF name = "conn-added" THEN Append(hs, callback) ELSE hs
    IN  [handlers |-> hs2,
         ev |-> IF name = "conn-added"
                THEN emit_each(hs2, SetToSeq(DOMAIN cs))
                ELSE <<>>]

\* vmmEngine.connect(name, callback), for a callback not attached before.
connect(name, callback) ==
    /\ callback \notin Range(handlers)
    /\ LET r == connect_f(handlers, conns, name, callback)
       IN  /\ handlers' = r.handlers
           /\ lastOp' = Op("connect", name, 0, FALSE, r.ev)
    /\ UNCHANGED <<skipRun, confirm, dialogs, conns, conn_uris, conn_autoconnect,
                   connState, err, systray, systray_visible, windows,
                   windowManager, timer, sources, _tick_thread,
                   _tick_thread_slow, threads, idle>>

\* ------------------------------------------------------------------ manager
\* get_manager(): the manager window, created on first use.  Creating it
\* attaches it to conn-added, and attaching to conn-added re-emits the signal
\* for every registered connection (vmmEngine.connect).
get_manager(wm, cs) ==
    IF wm THEN <<>>
    ELSE << <<"construct", "vmmManager", "">> >>
         \o [i \in 1..Cardinality(DOMAIN cs) |->
                <<"emit", "conn-added", SetToSeq(DOMAIN cs)[i]>>]

\* self.connect("conn-added", obj.add_conn) of get_manager: the callbacks
\* attached to conn-added once get_manager() has returned.
get_manager_handlers(wm, hs) ==
    IF wm THEN hs ELSE Append(hs, "manager.add_conn")

ManagerFaults == {"none", "show"}

\* _do_show_manager(src): a failure is re-raised when there is no src to
\* report it to (show_manager passes None).
_do_show_manager(src, fault) ==
    /\ windowManager' = TRUE
    /\ handlers' = get_manager_handlers(windowManager, handlers)
    /\ lastOp' = Op("_do_show_manager", src, 0, fault = "show" /\ src = "None",
                    get_manager(windowManager, conns)
                    \o (IF fault # "show"
                        THEN << <<"show", "windowManager", "">> >>
                        ELSE IF src = "None" THEN <<>>
                        ELSE << <<"src.err.show_err",
                                  "Error launching manager", "">> >>))
    /\ UNCHANGED <<skipRun, confirm, dialogs, conns, conn_uris, conn_autoconnect, connState, err, systray,
                   systray_visible, windows, timer, sources, _tick_thread,
                   _tick_thread_slow, threads, idle>>

\* show_manager(): the command-line entry point, which has no src to pass.
show_manager(fault) ==
    _do_show_manager("None", fault)

\* ------------------------------------------------------------ window counter
IdleItem(kind, conn, thread) == [kind |-> kind, conn |-> conn, thread |-> thread]

increment_window_counter ==
    /\ windows < MaxWindows
    /\ windows' = windows + 1
    /\ lastOp' = Op("increment_window_counter", "", 0, FALSE, <<>>)
    /\ UNCHANGED <<handlers, skipRun, confirm, dialogs, conns, conn_uris, conn_autoconnect, connState, err, systray,
                   systray_visible, windowManager, timer, sources,
                   _tick_thread, _tick_thread_slow, threads, idle>>

\* A decrement that asks only whether a tray exists, not whether it is visible.
decrement_f_anytray(w, tray, visible) ==
    [windows |-> w - 1,
     exit |-> (w - 1 <= 0 /\ tray)]

\* decrement_window_counter(src) as a function of the counter and the tray:
\* the new counter and whether exit_app is handed to idle_add.
decrement_f(w, tray, visible) ==
    [windows |-> w - 1,
     exit |-> (w - 1 <= 0 /\ tray /\ ~visible)]

decrement_window_counter ==
    LET r == decrement_f(windows, systray, systray_visible)
    IN  /\ windows > -MaxWindows
        /\ r.exit => Len(idle) < MaxIdle
        /\ windows' = r.windows
        /\ idle' = IF r.exit THEN Append(idle, IdleItem("exit_app", 0, 0))
                   ELSE idle
        /\ lastOp' = Op("decrement_window_counter", "", 0, FALSE,
                        IF r.exit THEN << <<"idle_add", "exit_app", "">> >>
                        ELSE <<>>)
        /\ UNCHANGED <<handlers, skipRun, confirm, dialogs, conns, conn_uris, conn_autoconnect, connState, err,
                       systray, systray_visible, windowManager, timer, sources,
                       _tick_thread, _tick_thread_slow, threads>>

\* The tray icon is shown or hidden (the view-system-tray preference); the
\* engine's handler system_tray_changed shows the manager when no window is
\* open and the tray went away.
system_tray_changed(enabled) ==
    /\ systray
    /\ systray_visible # enabled
    /\ systray_visible' = enabled
    /\ LET show == windows = 0 /\ ~enabled
       IN  /\ windowManager' = (windowManager \/ show)
           /\ handlers' = IF show
                          THEN get_manager_handlers(windowManager, handlers)
                          ELSE handlers
           /\ lastOp' = Op("system_tray_changed", "", 0, FALSE,
                           IF show
                           THEN get_manager(windowManager, conns)
                                \o << <<"show", "windowManager", "">> >>
                           ELSE <<>>)
    /\ UNCHANGED <<skipRun, confirm, dialogs, conns, conn_uris, conn_autoconnect, connState, err, systray,
                   windows, timer, sources, _tick_thread, _tick_thread_slow,
                   threads, idle>>

\* ------------------------------------------------------------------- exit
\* for uri in self.conns: self.cleanup_conn(uri)
RECURSIVE CleanupAll(_, _, _)
CleanupAll(cs, uris, fault) ==
    IF uris = <<>> THEN <<>>
    ELSE cleanup_conn(cs, Head(uris), fault) \o CleanupAll(cs, Tail(uris), fault)

\* _cleanup(): releases the error dialog first, then the timer, the tray, the
\* manager (created, if need be, only to be cleaned up) and the other windows,
\* and last every connection; the registry ends empty.
_cleanup(fault) ==
    [err |-> FALSE,
     systray |-> FALSE,
     windowManager |-> FALSE,
     handlers |-> get_manager_handlers(windowManager, handlers),
     dialogs |-> {},
     sources |-> IF timer # 0 THEN sources \ {timer} ELSE sources,
     conns |-> <<>>,
     ev |-> << <<"uihelpers.cleanup", "", "">>, <<"release", "err", "">> >>
            \o (IF timer # 0 THEN << <<"source_remove", "timer", "">> >> ELSE <<>>)
            \o (IF systray THEN << <<"cleanup", "systray", "">> >> ELSE <<>>)
            \o get_manager(windowManager, conns)
            \o << <<"cleanup", "windowManager", "">> >>
            \o [i \in 1..Cardinality(dialogs) |->
                   <<"cleanup", SetToSeq(dialogs)[i], "">>]
            \o CleanupAll(conns, SetToSeq(DOMAIN conns), fault)
            \o << <<"clear", "conns", "">> >> ]

\* An exit_app without the test of self.err: it cleans up on every call.
exit_app_f_always(fault) ==
    [_cleanup(fault) EXCEPT
        !.ev = @ \o << <<"main_quit", "", "">>,
                       <<"remove_window", "_appwindow", "">> >>]

\* exit_app(src) as a function of the engine state: a no-op once self.err is
\* None, else the cleanup followed by quitting the main loops.
exit_app_f(fault) ==
    IF ~err
    THEN [err |-> err, systray |-> systray, windowManager |-> windowManager,
          handlers |-> handlers,
          dialogs |-> dialogs, sources |-> sources, conns |-> conns,
          ev |-> <<>>]
    ELSE [_cleanup(fault) EXCEPT
            !.ev = @ \o << <<"main_quit", "", "">>,
                           <<"remove_window", "_appwindow", "">> >>]

\* exit_app(src): handler of the action-exit-app signals.
exit_app(fault) ==
    /\ LET r == exit_app_f(fault)
       IN  /\ err' = r.err
           /\ systray' = r.systray
           /\ windowManager' = r.windowManager
           /\ handlers' = r.handlers
           /\ dialogs' = r.dialogs
           /\ sources' = r.sources
           /\ conns' = r.conns
           /\ connState' = Collect(connState, r.conns, idle)
           /\ lastOp' = Op("exit_app", "", 0, FALSE, r.ev)
    /\ UNCHANGED <<skipRun, confirm, conn_uris, conn_autoconnect, systray_visible, windows, timer,
                   _tick_thread, _tick_thread_slow, threads, idle>>

\* ------------------------------------------------------------ refresh timer
TimerIds == {1, 2}

\* A schedule_timer that arms the new timeout and leaves the old one armed.
schedule_timer_f_no_cancel(tm, srcs) ==
    LET new == CHOOSE i \in TimerIds : i \notin srcs /\ i # tm
    IN  [timer |-> new, sources |-> srcs \cup {new}]

\* schedule_timer(): removes the armed timeout, if any, and arms a new one.
schedule_timer_f(tm, srcs) ==
    LET kept == IF tm # 0 THEN srcs \ {tm} ELSE srcs
        new == CHOOSE i \in TimerIds : i \notin kept /\ i # tm
    IN  [timer |-> new, sources |-> kept \cup {new}]

\* reschedule_timer(): handler of a change of the stats update interval.
reschedule_timer ==
    /\ \E i \in TimerIds : i \notin sources /\ i # timer
    /\ LET r == schedule_timer_f(timer, sources)
       IN  /\ timer' = r.timer
           /\ sources' = r.sources
    /\ lastOp' = Op("reschedule_timer", "", 0, FALSE, <<>>)
    /\ UNCHANGED <<handlers, skipRun, confirm, dialogs, conns, conn_uris, conn_autoconnect, connState, err, systray,
                   systray_visible, windows, windowManager, _tick_thread,
                   _tick_thread_slow, threads, idle>>

\* ------------------------------------------------------------ refresh worker
Unused == [pc |-> "unused", todo |-> {}, ticked |-> {}, error_msg |-> "",
           cause |-> ""]
Started == [Unused EXCEPT !.pc = "start"]

\* threading.Thread.isAlive(): started and _tick has neither returned nor raised.
isAlive(th) == th.pc \in {"start", "loop"}

\* A Thread object is kept while it runs, while self._tick_thread names it, or
\* while a queued show_err closure still reads its error_msg.
ThreadInUse(ths, tt, q) ==
    {t \in ThreadIds : isAlive(ths[t])} \cup (IF tt # 0 THEN {tt} ELSE {})
    \cup {q[i].thread : i \in {j \in DOMAIN q : q[j].kind = "show_err"}}

CollectThreads(ths, tt, q) ==
    [t \in ThreadIds |-> IF t \in ThreadInUse(ths, tt, q) THEN ths[t] ELSE Unused]

\* Thread objects a new threading.Thread may take: not running, not read by a
\* queued closure (the one self._tick_thread names is about to be dropped).
FreeThreads(ths, q) ==
    {t \in ThreadIds : ~isAlive(ths[t])} \
    {q[i].thread : i \in {j \in DOMAIN q : q[j].kind = "show_err"}}

\* tick() without the isAlive test: it starts a worker on every call.
tick_f_overlap(tt, slow, ths, q) ==
    LET t == CHOOSE x \in FreeThreads(ths, q) : TRUE
    IN  [ret |-> 1, _tick_thread |-> t, slow |-> slow,
         threads |-> CollectThreads([ths EXCEPT ![t] = Started], t, q),
         ev |-> << <<"Thread.start", "_tick", "">> >>]

\* tick(): skipped (logging once) while the previous worker is alive, else a
\* new worker thread is started; returns 1 either way.
tick_f(tt, slow, ths, q) ==
    IF tt # 0 /\ isAlive(ths[tt])
    THEN [ret |-> 1, _tick_thread |-> tt, slow |-> TRUE, threads |-> ths,
          ev |-> IF ~slow THEN << <<"logging.debug", "Tick is slow", "">> >>
                 ELSE <<>>]
    ELSE LET t == CHOOSE x \in FreeThreads(ths, q) : TRUE
         IN  [ret |-> 1, _tick_thread |-> t, slow |-> slow,
              threads |-> CollectThreads([ths EXCEPT ![t] = Started], t, q),
              ev |-> << <<"Thread.start", "_tick", "">> >>]

\* The length of the current run of skipped ticks after a call of tick() that
\* did ev: 0 again when the call started a worker, else one more (counted up
\* to MaxSkipRun).
NextSkipRun(n, ev) ==
    IF ev # <<>> /\ ev[1][1] = "Thread.start" THEN 0
    ELSE IF n < MaxSkipRun THEN n + 1 ELSE n

\* A direct call of tick().
tick ==
    /\ FreeThreads(threads, idle) # {}
    /\ LET r == tick_f(_tick_thread, _tick_thread_slow, threads, idle)
       IN  /\ _tick_thread' = r._tick_thread
           /\ _tick_thread_slow' = r.slow
           /\ threads' = r.threads
           /\ lastOp' = Op("tick", "", r.ret, FALSE, r.ev)
           /\ skipRun' = NextSkipRun(skipRun, r.ev)
    /\ UNCHANGED <<handlers, confirm, dialogs, conns, conn_uris, conn_autoconnect, connState, err, systray,
                   systray_visible, windows, windowManager, timer, sources,
                   idle>>

\* An armed timeout expires: GLib calls tick() and removes the source when the
\* callback returns a false value.
TimerFire(s) ==
    /\ s \in sources
    /\ FreeThreads(threads, idle) # {}
    /\ LET r == tick_f(_tick_thread, _tick_thread_slow, threads, idle)
       IN  /\ _tick_thread' = r._tick_thread
           /\ _tick_thread_slow' = r.slow
           /\ threads' = r.threads
           /\ sources' = IF r.ret = 0 THEN sources \ {s} ELSE sources
           /\ lastOp' = Op("timeout", "", r.ret, FALSE, r.ev)
           /\ skipRun' = NextSkipRun(skipRun, r.ev)
    /\ UNCHANGED <<handlers, confirm, dialogs, conns, conn_uris, conn_autoconnect, connState, err, systray,
                   systray_visible, windows, windowManager, timer, idle>>

\* What conn.tick() may do: return, or raise a libvirtError of some error
\* domain and code, a KeyboardInterrupt, or any other exception.
ErrorDomains == {"VIR_FROM_REMOTE", "VIR_FROM_RPC", "VIR_FROM_QEMU"}
ErrorCodes == {"VIR_ERR_SYSTEM_ERROR", "VIR_ERR_INTERNAL_ERROR"}
TickOutcomes ==
    {[exc |-> e, dom |-> "", code |-> ""] :
        e \in {"none", "KeyboardInterrupt", "Exception"}}
    \cup {[exc |-> "libvirtError", dom |-> d, code |-> c] :
            d \in ErrorDomains, c \in ErrorCodes}

\* The test of _tick for "libvirtd appears to have stopped".
IsTransient(o) ==
    /\ o.dom \in {"VIR_FROM_REMOTE", "VIR_FROM_RPC"}
    /\ o.code \in {"VIR_ERR_SYSTEM_ERROR"}

\* A handler that closes the connection only for the transient fault.
_tick_except_keep_open(o, conn, t) ==
    IF IsTransient(o) THEN <<IdleItem("conn.close", conn, 0)>>
    ELSE <<IdleItem("show_err", 0, t)>>

\* The deferred callbacks _tick queues for a libvirtError raised by the refresh
\* of connection conn, in worker thread t: the error dialog unless the fault is
\* the transient one, and conn.close in either case.
_tick_except(o, conn, t) ==
    (IF IsTransient(o) THEN <<>> ELSE <<IdleItem("show_err", 0, t)>>)
    \o <<IdleItem("conn.close", conn, 0)>>

\* vmmConnection.close(): the connection ends disconnected.
conn_close(st, c) == [st EXCEPT ![c] = "disconnected"]

\* A worker that closes the connection itself and queues only the error
\* dialog.
_tick_f_close_now(st, q, o, conn, t) ==
    [connState |-> conn_close(st, conn),
     idle |-> q \o (IF IsTransient(o) THEN <<>>
                    ELSE <<IdleItem("show_err", 0, t)>>)]

\* What the except clause of _tick does, on the worker thread, to the state the
\* worker shares with the event loop: it calls self.idle_add and nothing else,
\* so the connection states stay as they are and the callbacks are queued.
_tick_f(st, q, o, conn, t) ==
    [connState |-> st, idle |-> q \o _tick_except(o, conn, t)]

\* The worker enters _tick: self.conns.keys() is a list of its own.
_tick_start(t) ==
    /\ threads[t].pc = "start"
    /\ threads' = [threads EXCEPT ![t].pc = "loop", ![t].todo = DOMAIN conns]
    /\ lastOp' = Op("_tick", "", 0, FALSE, <<>>)
    /\ UNCHANGED <<handlers, skipRun, confirm, dialogs, conns, conn_uris, conn_autoconnect, connState, err, systray,
                   systray_visible, windows, windowManager, timer, sources,
                   _tick_thread, _tick_thread_slow, idle>>

\* One iteration of the loop of _tick, for uri, where conn.tick() does o.
\* self.conns[uri] is read outside the try block; KeyboardInterrupt is
\* re-raised and an exception that is no libvirtError is not caught, so either
\* ends the thread.
_tick_conn(t, uri, o) ==
    /\ threads[t].pc = "loop"
    /\ uri \in threads[t].todo
    /\ Len(idle) + 2 <= MaxIdle
    /\ IF uri \notin DOMAIN conns
       THEN /\ threads' = CollectThreads(
                            [threads EXCEPT ![t].pc = "died",
                                            ![t].cause = "KeyError"],
                            _tick_thread, idle)
            /\ idle' = idle
            /\ connState' = connState
            /\ lastOp' = Op("_tick", uri, 0, TRUE, <<>>)
       ELSE IF o.exc = "none"
       THEN /\ threads' = [threads EXCEPT ![t].todo = @ \ {uri},
                                          ![t].ticked = @ \cup {uri}]
            /\ idle' = idle
            /\ connState' = connState
            /\ lastOp' = Op("_tick", uri, 0, FALSE, <<>>)
       ELSE IF o.exc = "libvirtError"
       THEN /\ threads' = [threads EXCEPT
                             ![t].todo = @ \ {uri},
                             ![t].ticked = @ \cup {uri},
                             ![t].error_msg =
                                IF IsTransient(o) THEN @ ELSE uri]
            /\ LET r == _tick_f(connState, idle, o, conns[uri].conn, t)
               IN  /\ idle' = r.idle
                   /\ connState' = r.connState
            /\ lastOp' = Op("_tick", uri, 0, FALSE, <<>>)
       ELSE /\ threads' = CollectThreads(
                            [threads EXCEPT ![t].pc = "died",
                                            ![t].ticked = @ \cup {uri},
                                            ![t].cause = o.exc],
                            _tick_thread, idle)
            /\ idle' = idle
            /\ connState' = connState
            /\ lastOp' = Op("_tick", uri, 0, TRUE, <<>>)
    /\ UNCHANGED <<handlers, skipRun, confirm, dialogs, conns, conn_uris, conn_autoconnect, err, systray,
                   systray_visible, windows, windowManager, timer, sources,
                   _tick_thread, _tick_thread_slow>>

\* The loop of _tick is over: return 1, the thread ends.
_tick_return(t) ==
    /\ threads[t].pc = "loop"
    /\ threads[t].todo = {}
    /\ threads' = CollectThreads([threads EXCEPT ![t].pc = "done"],
                                 _tick_thread, idle)
    /\ lastOp' = Op("_tick", "", 1, FALSE, <<>>)
    /\ UNCHANGED <<handlers, skipRun, confirm, dialogs, conns, conn_uris, conn_autoconnect, connState, err, systray,
                   systray_visible, windows, windowManager, timer, sources,
                   _tick_thread, _tick_thread_slow, idle>>

\* ---------------------------------------------------------------- idle queue
\* The event loop runs the oldest idle callback, here a deferred exit_app.
RunIdleExit(fault) ==
    /\ idle # <<>>
    /\ Head(idle).kind = "exit_app"
    /\ LET r == exit_app_f(fault)
       IN  /\ err' = r.err
           /\ systray' = r.systray
           /\ windowManager' = r.windowManager
           /\ handlers' = r.handlers
           /\ dialogs' = r.dialogs
           /\ sources' = r.sources
           /\ conns' = r.conns
           /\ connState' = Collect(connState, r.conns, Tail(idle))
           /\ lastOp' = Op("exit_app", "idle", 0, FALSE, r.ev)
    /\ idle' = Tail(idle)
    /\ UNCHANGED <<skipRun, confirm, conn_uris, conn_autoconnect, systray_visible, windows, timer,
                   _tick_thread, _tick_thread_slow, threads>>

\* lambda: self.err.show_err(error_msg), as _tick queued it: self.err and the
\* worker's variable error_msg are read when the callback runs.  With self.err
\* None the call raises AttributeError.
show_err_closure(e, ths, t) ==
    IF e THEN [raised |-> FALSE,
               ev |-> << <<"self.err.show_err", ths[t].error_msg, "">> >>]
    ELSE [raised |-> TRUE, ev |-> <<>>]

\* The oldest idle callback is a deferred error dialog of the refresh worker.
RunIdleShowErr ==
    /\ idle # <<>>
    /\ Head(idle).kind = "show_err"
    /\ LET r == show_err_closure(err, threads, Head(idle).thread)
       IN  lastOp' = Op("show_err", "idle", 0, r.raised, r.ev)
    /\ idle' = Tail(idle)
    /\ threads' = CollectThreads(threads, _tick_thread, Tail(idle))
    /\ UNCHANGED <<handlers, skipRun, confirm, dialogs, conns, conn_uris, conn_autoconnect, connState, err, systray,
                   systray_visible, windows, windowManager, timer, sources,
                   _tick_thread, _tick_thread_slow>>

\* The oldest idle callback is a deferred conn.close of the refresh worker.
RunIdleClose ==
    /\ idle # <<>>
    /\ Head(idle).kind = "conn.close"
    /\ connState' = Collect(conn_close(connState, Head(idle).conn), conns,
                            Tail(idle))
    /\ idle' = Tail(idle)
    /\ lastOp' = Op("conn.close", "idle", 0, FALSE, <<>>)
    /\ UNCHANGED <<handlers, skipRun, confirm, dialogs, conns, conn_uris, conn_autoconnect, err, systray,
                   systray_visible, windows, windowManager, timer, sources,
                   _tick_thread, _tick_thread_slow, threads>>

\* ------------------------------------------------------------ specifications
\* The registry __init__ builds from the stored URIs (load_stored_uris).
RECURSIVE InitConns(_, _)
InitConns(uris, n) ==
    IF uris = <<>> THEN <<>>
    ELSE Put(InitConns(Tail(uris), n + 1), Head(uris), NewEntry(n))

\* The known-URI list found at startup: both URIs of the model are stored.
StoredUris == <<"qemu:///system", "xen:///">>

\* The engine after __init__: the stored connections added, the timer armed by
\* schedule_timer(), and the first refresh worker started by tick().
Init ==
    /\ conn_uris = StoredUris
    /\ conns = InitConns(conn_uris, 1)
    /\ conn_autoconnect = {}
    /\ connState = [c \in ConnIds |->
                      IF c <= Len(conn_uris) THEN "disconnected" ELSE "free"]
    /\ err = TRUE
    /\ systray = TRUE
    /\ systray_visible = FALSE
    /\ windows = 0
    /\ windowManager = FALSE
    /\ dialogs = {}
    /\ confirm = Confirmations
    /\ timer = 1
    /\ sources = {1}
    /\ _tick_thread = 1
    /\ _tick_thread_slow = FALSE
    /\ threads = [t \in ThreadIds |-> IF t = 1 THEN Started ELSE Unused]
    /\ idle = <<>>
    /\ skipRun = 0
    /\ handlers = <<>>
    /\ lastOp = NoOp

\* The refresh scheduler: the timer, tick(), the worker thread and the idle
\* callbacks it queues, over a registry that connections leave and that exit
\* empties.
Next ==
    \/ \E u \in URIS : remove_conn(u, "none")
    \/ exit_app("none")
    \/ tick
    \/ \E s \in TimerIds : TimerFire(s)
    \/ \E t \in ThreadIds : _tick_start(t)
    \/ \E t \in ThreadIds, u \in URIS, o \in TickOutcomes : _tick_conn(t, u, o)
    \/ \E t \in ThreadIds : _tick_return(t)
    \/ RunIdleShowErr
    \/ RunIdleClose

Spec == Init /\ [][Next]_vars

\* The window counter and application exit.
NextWindows ==
    \/ increment_window_counter
    \/ decrement_window_counter
    \/ \E b \in BOOLEAN : system_tray_changed(b)
    \/ \E f \in CleanupFaults : exit_app(f)
    \/ \E f \in CleanupFaults : RunIdleExit(f)
    \/ reschedule_timer

SpecWindows == Init /\ [][NextWindows]_vars

\* The connection registry and the persisted configuration.
NextConnect ==
    \/ \E u \in URIS, f \in AddFaults : add_conn_to_ui(u, f)
    \/ \E u \in URIS, a \in AutoconnectArgs, d \in BOOLEAN, f \in ConnectFaults :
          connect_to_uri(u, a, d, f)
    \/ \E u \in URIS : remove_conn(u, "none")

SpecConnect == Init /\ [][NextConnect]_vars

\* The registry and the dialog caches of its connections.
NextDialogs ==
    \/ \E u \in URIS, f \in AddFaults : add_conn_to_ui(u, f)
    \/ \E u \in URIS, f \in CleanupFaults : remove_conn(u, f)
    \/ \E u \in URIS, f \in DialogFaults : _do_show_host(u, f)
    \/ \E u \in URIS, v \in VMS, f \in DialogFaults :
          _show_vm_helper(u, v, 0, FALSE, f)
    \/ \E u \in URIS, v \in VMS, f \in CloneFaults : _do_show_clone(u, v, f)
    \/ \E f \in CleanupFaults : exit_app(f)

SpecDialogs == Init /\ [][NextDialogs]_vars

\* The domain action handlers, called for a registered URI and for one the
\* registry does not know.
ActionUris == {"qemu:///system", "test:///default"}

NextActions ==
    \/ \E u \in ActionUris, i \in SaveInputs : _do_save_domain(u, i)
    \/ \E u \in ActionUris, i \in RestoreInputs : _do_restore_domain(u, i)
    \/ \E u \in ActionUris, i \in ActionInputs : _do_destroy_domain(u, i)
    \/ \E u \in ActionUris, i \in ActionInputs : _do_suspend_domain(u, i)
    \/ \E u \in ActionUris, i \in ActionInputs : _do_resume_domain(u, i)
    \/ \E u \in ActionUris, i \in RunInputs : _do_run_domain(u, i)
    \/ \E u \in ActionUris, i \in ActionInputs : _do_shutdown_domain(u, i)
    \/ \E u \in ActionUris, i \in RebootInputs : _do_reboot_domain(u, i)
    \/ \E u \in ActionUris, i \in ActionInputs : _do_reset_domain(u, i)
    \/ \E u \in ActionUris, i \in LaunchInputs : _do_delete_domain(u, i)
    \/ \E u \in ActionUris, v \in VMS, f \in CloneFaults : _do_show_clone(u, v, f)
    \/ \E u \in ActionUris, i \in LaunchInputs : _do_show_migrate(u, i)

SpecActions == Init /\ [][NextActions]_vars

\* The dialog caches of one connection, with two VMs.
UUIDS == {"vm1", "vm2"}
CacheUris == {"qemu:///system"}

NextCache ==
    \/ \E u \in CacheUris, v \in UUIDS, f \in DialogFaults :
          _show_vm_helper(u, v, 0, FALSE, f)
    \/ \E u \in CacheUris, v \in UUIDS : details_close(u, v)
    \/ \E u \in CacheUris, f \in DialogFaults : _do_show_host(u, f)
    \/ \E u \in CacheUris, v \in UUIDS, f \in CloneFaults : _do_show_clone(u, v, f)
    \/ \E u \in CacheUris : remove_conn(u, "none")
    \/ \E u \in CacheUris : add_conn_to_ui(u, "none")

SpecCache == Init /\ [][NextCache]_vars

\* The dialog launchers, called from a window and from the command line.
NextLaunch ==
    \/ \E f \in ManagerFaults : show_manager(f)
    \/ \E f \in ManagerFaults : _do_show_manager("manager", f)
    \/ \E u \in ActionUris, f \in DialogFaults : _do_show_host(u, f)
    \/ \E u \in ActionUris, v \in VMS, p \in PageArgs, fp \in BOOLEAN,
          f \in DialogFaults : _show_vm_helper(u, v, p, fp, f)
    \/ \E u \in ActionUris, v \in VMS, f \in CloneFaults : _do_show_clone(u, v, f)
    \/ \E u \in ActionUris, i \in LaunchInputs : _do_show_migrate(u, i)
    \/ \E u \in ActionUris, v \in VMS : details_close(u, v)

SpecLaunch == Init /\ [][NextLaunch]_vars

\* The refresh worker beside an event loop that opens connections.
NextWorker ==
    \/ \E u \in URIS : connect_to_uri(u, "None", TRUE, "none")
    \/ tick
    \/ \E t \in ThreadIds : _tick_start(t)
    \/ \E t \in ThreadIds, u \in URIS, o \in TickOutcomes : _tick_conn(t, u, o)
    \/ \E t \in ThreadIds : _tick_return(t)
    \/ RunIdleShowErr
    \/ RunIdleClose

SpecWorker == Init /\ [][NextWorker]_vars

\* The observers of the registry's signals, attached while connections come
\* and go.
NextObservers ==
    \/ \E n \in SignalNames, cb \in Observers : connect(n, cb)
    \/ \E u \in URIS : add_conn_to_ui(u, "none")
    \/ \E u \in URIS : remove_conn(u, "none")
    \/ \E f \in ManagerFaults : _do_show_manager("manager", f)

SpecObservers == Init /\ [][NextObservers]_vars

\* The refresh timer re-armed by interval changes while it fires and the
\* worker runs.
NextTimer ==
    \/ reschedule_timer
    \/ \E s \in TimerIds : TimerFire(s)
    \/ \E t \in ThreadIds : _tick_start(t)
    \/ \E t \in ThreadIds, u \in URIS, o \in TickOutcomes : _tick_conn(t, u, o)
    \/ \E t \in ThreadIds : _tick_return(t)
    \/ RunIdleShowErr
    \/ RunIdleClose

SpecTimer == Init /\ [][NextTimer]_vars

\* The signals of the connections (state-changed, vm-removed) while dialogs
\* of two connections are open.
NextSignals ==
    \/ \E u \in URIS, st \in ConnStates, b \in CreateConns :
          _do_conn_changed(u, st, b)
    \/ \E u \in URIS, v \in UUIDS : _do_vm_removed(u, v)
    \/ \E u \in URIS, v \in UUIDS : _show_vm_helper(u, v, 0, FALSE, "none")
    \/ \E u \in CacheUris : _do_show_host(u, "none")
    \/ \E u \in CacheUris, v \in VMS : _do_show_clone(u, v, "none")
    \/ \E u \in CacheUris, f \in DialogFaults : _do_show_create(u, f)

SpecSignals == Init /\ [][NextSignals]_vars

\* ===================================================================== claims
\* --------------------------------------------------------------------- C1
\* The threads of the refresh worker that are running.
AliveWorkers == {t \in ThreadIds : isAlive(threads[t])}

\* A step that is a tick (a direct call or the timeout) taken while the worker
\* self._tick_thread names is still running.
SkippedTick ==
    /\ lastOp'.op \in {"tick", "timeout"}
    /\ _tick_thread # 0
    /\ isAlive(threads[_tick_thread])

\* C1: at most one refresh worker runs at a time; a tick that arrives while the
\* previous worker is still running starts no second worker (the set of
\* threads and the worker the engine names are unchanged, nothing is started)
\* and the timer stays armed: the callback returns a true value and the set of
\* armed timeout sources is what it was.
C1_OneRefreshWorker ==
    /\ [](Cardinality(AliveWorkers) <= 1)
    /\ [][SkippedTick =>
            /\ threads' = threads
            /\ _tick_thread' = _tick_thread
            /\ \A i \in DOMAIN lastOp'.ev : lastOp'.ev[i][1] # "Thread.start"
            /\ lastOp'.ret = 1
            /\ sources' = sources
            /\ timer' = timer]_vars

\* A timeout found the worker running and was skipped, and the timer the engine
\* holds is still an armed source.
C1_Witness ==
    /\ lastOp.op = "timeout"
    /\ lastOp.ev = << <<"logging.debug", "Tick is slow", "">> >>
    /\ Cardinality(AliveWorkers) = 1
    /\ _tick_thread \in AliveWorkers
    /\ timer \in sources

\* --------------------------------------------------------------------- C2
\* C2: the open-window counter is never negative.
C2_CounterNeverNegative == windows >= 0

\* --------------------------------------------------------------------- C3
\* C3: add_conn_to_ui(uri) is idempotent per URI.  A call for a URI that is
\* already registered returns the connection of the existing entry, emits
\* nothing and leaves the whole registry (the entry, its connection and its
\* dialog cache) and the connection states as they were; a call that returns
\* for a URI not yet registered adds exactly that one entry, with an empty
\* dialog cache, returns its connection and emits conn-added once.
C3_AddConnIdempotent ==
    [][(lastOp'.op = "add_conn_to_ui" /\ ~lastOp'.raised) =>
         LET uri == lastOp'.arg
         IN  IF uri \in DOMAIN conns
             THEN /\ conns' = conns
                  /\ connState' = connState
                  /\ lastOp'.ret = conns[uri].conn
                  /\ lastOp'.ev = <<>>
             ELSE /\ DOMAIN conns' = DOMAIN conns \cup {uri}
                  /\ \A u \in DOMAIN conns : conns'[u] = conns[u]
                  /\ conns'[uri] = NewEntry(lastOp'.ret)
                  /\ lastOp'.ret # 0
                  /\ \A u \in DOMAIN conns : conns[u].conn # lastOp'.ret
                  /\ lastOp'.ev = << <<"emit", "conn-added", uri>> >>]_vars

\* A repeated add_conn_to_ui returned the connection of an entry that already
\* caches dialogs, and emitted nothing.
C3_Witness ==
    /\ lastOp.op = "add_conn_to_ui"
    /\ ~lastOp.raised
    /\ lastOp.ev = <<>>
    /\ lastOp.arg \in DOMAIN conns
    /\ lastOp.ret = conns[lastOp.arg].conn
    /\ conns[lastOp.arg].windowHost
    /\ DOMAIN conns[lastOp.arg].windowDetails # {}

\* --------------------------------------------------------------------- C4
\* The dialogs whose cleanup() a sequence of events invoked, in order; a
\* cleanup() that raised counts as invoked.  The connection's own cleanup is
\* no dialog.
IsDialogTeardown(e) ==
    /\ e[1] \in {"cleanup", "cleanup raised"}
    /\ e[2] # "conn"

DialogTeardowns(ev) ==
    LET sel == SelectSeq(ev, IsDialogTeardown)
    IN  [i \in DOMAIN sel |-> sel[i][2]]

\* The dialogs the entry of uri caches: host, clone, one per details dialog.
CachedDialogs(cs, uri) ==
    (IF cs[uri].windowHost THEN <<"windowHost">> ELSE <<>>)
    \o (IF cs[uri].windowClone THEN <<"windowClone">> ELSE <<>>)
    \o [i \in 1..Cardinality(DOMAIN cs[uri].windowDetails) |-> "windowDetails"]

\* C4: remove_conn(uri) on a registered URI invokes the teardown of every
\* dialog cached for the connection (host, clone, every details dialog), then
\* deletes the registry entry, then emits conn-removed exactly once, then
\* removes the URI from the persisted list, in that order; afterwards the URI
\* is neither registered nor persisted.
C4_RemoveConnOrder ==
    [][(lastOp'.op = "remove_conn" /\ lastOp'.arg \in DOMAIN conns) =>
         LET uri == lastOp'.arg
             ev == lastOp'.ev
             n == Len(ev)
         IN  /\ ~lastOp'.raised
             /\ n >= 3
             /\ SubSeq(ev, n - 2, n) = << <<"del", "conns", uri>>,
                                          <<"emit", "conn-removed", uri>>,
                                          <<"config.remove_conn", uri, "">> >>
             /\ Count(ev, <<"emit", "conn-removed", uri>>) = 1
             /\ DialogTeardowns(SubSeq(ev, 1, n - 3)) = CachedDialogs(conns, uri)
             /\ uri \notin DOMAIN conns'
             /\ uri \notin Range(conn_uris')]_vars

\* --------------------------------------------------------------------- C5
\* A step of decrement_window_counter that leaves the counter at zero or below.
DecrementToZero ==
    /\ lastOp'.op = "decrement_window_counter"
    /\ windows' <= 0

\* The step hands exit_app to the idle queue and runs none of it itself.
ExitDeferred ==
    /\ idle' = Append(idle, IdleItem("exit_app", 0, 0))
    /\ UNCHANGED <<err, systray, windowManager, dialogs, sources, conns,
                   connState>>

\* The step neither queues nor runs anything.
NothingHappens ==
    UNCHANGED <<idle, err, systray, windowManager, dialogs, sources, conns,
                connState>>

\* C5 as stated: when a decrement brings the counter to zero or below, nothing
\* happens if the tray is active and visible; otherwise exit is queued as an
\* idle callback, and exit_app is not run inside the decrement.
C5_ExitScheduledUnlessTrayVisible ==
    [][DecrementToZero =>
         IF systray /\ systray_visible THEN NothingHappens
         ELSE ExitDeferred]_vars

\* C5, amended: exit is queued (deferred, never run inside the decrement) when
\* the tray object exists and is not visible; nothing happens when the tray is
\* visible, and nothing happens either once exit cleanup has released the tray
\* object.
C5_ExitScheduledWhileTrayHidden ==
    [][DecrementToZero =>
         IF systray /\ ~systray_visible THEN ExitDeferred
         ELSE NothingHappens]_vars

\* A decrement to zero, with the tray hidden, queued the exit and left the
\* engine intact.
C5_Witness ==
    /\ lastOp.op = "decrement_window_counter"
    /\ windows = 0
    /\ systray /\ ~systray_visible
    /\ idle # <<>>
    /\ idle[Len(idle)].kind = "exit_app"
    /\ err

\* --------------------------------------------------------------------- C6
\* C6: once exit has begun (self.err released), every further exit_app, called
\* directly or run from the idle queue, is a no-op: it performs no cleanup call
\* and changes nothing of the engine.
C6_ExitIdempotent ==
    [][(lastOp'.op = "exit_app" /\ ~err) =>
         /\ lastOp'.ev = <<>>
         /\ UNCHANGED <<err, systray, windowManager, dialogs, sources, conns,
                        connState, conn_uris, timer, windows, threads,
                        _tick_thread>>]_vars

\* The second of two deferred exits queued by repeated decrements ran after the
\* first had cleaned up, and did nothing.
C6_Witness ==
    /\ lastOp.op = "exit_app"
    /\ lastOp.arg = "idle"
    /\ lastOp.ev = <<>>
    /\ ~err
    /\ windows < 0

\* --------------------------------------------------------------------- C7
\* The idle callbacks of the refresh worker.
ShowErr(t) == IdleItem("show_err", 0, t)
CloseOf(cs, uri) == IdleItem("conn.close", cs[uri].conn, 0)

\* The refresh of a registered connection raises a fault the pass handles: a
\* libvirt error.
IsFault(o) == o.exc = "libvirtError"

\* The fault is the transient one: a libvirt error of the remote or RPC domain
\* with the system-error code.
TransientFault(o) ==
    /\ o.exc = "libvirtError"
    /\ o.dom \in {"VIR_FROM_REMOTE", "VIR_FROM_RPC"}
    /\ o.code = "VIR_ERR_SYSTEM_ERROR"

\* C7 as stated, for the faults the pass handles: a transient
\* remote-communication fault of a connection's refresh closes that connection
\* (its close is queued) with no error notification, and any other fault queues
\* a deferred error notification and does not close the connection.
C7_TransientClosesOtherNotifies ==
    [][\A t \in ThreadIds, uri \in URIS, o \in TickOutcomes :
         (_tick_conn(t, uri, o) /\ uri \in DOMAIN conns /\ IsFault(o)) =>
            IF TransientFault(o)
            THEN idle' = idle \o <<CloseOf(conns, uri)>>
            ELSE idle' = idle \o <<ShowErr(t)>>]_vars

\* C7, amended: every libvirt error raised by a connection's refresh queues the
\* close of that connection; the transient fault queues nothing else (it is
\* only logged), any other libvirt error queues a deferred error notification
\* ahead of the close.  The worker itself closes nothing: the connection's
\* state changes only when the idle callback runs.
C7_EveryLibvirtErrorCloses ==
    [][\A t \in ThreadIds, uri \in URIS, o \in TickOutcomes :
         (_tick_conn(t, uri, o) /\ uri \in DOMAIN conns /\ IsFault(o)) =>
            /\ connState' = connState
            /\ isAlive(threads'[t])
            /\ IF TransientFault(o)
               THEN idle' = idle \o <<CloseOf(conns, uri)>>
               ELSE idle' = idle \o <<ShowErr(t), CloseOf(conns, uri)>>]_vars

\* A fault that is not the transient one left an error notification and, behind
\* it, the close of the connection in the idle queue.
C7_Witness ==
    /\ lastOp.op = "_tick"
    /\ Len(idle) = 2
    /\ idle[1].kind = "show_err"
    /\ idle[2].kind = "conn.close"
    /\ \E u \in DOMAIN conns :
          /\ idle[2].conn = conns[u].conn
          /\ threads[idle[1].thread].error_msg = u

\* --------------------------------------------------------------------- C8
\* C8: refresh failures are isolated per connection: a worker that has ended,
\* for whatever fault the refresh of a connection raised other than a
\* cancellation request, has refreshed every connection of its pass that is
\* still registered.
C8_RefreshIsolated ==
    \A t \in ThreadIds :
       (/\ threads[t].pc \in {"done", "died"}
        /\ threads[t].cause \notin {"KeyboardInterrupt", "KeyError"})
       => (threads[t].todo \ threads[t].ticked) \cap DOMAIN conns = {}

\* --------------------------------------------------------------------- C9
\* The handlers of the domain actions.
ActionHandlers ==
    {"_do_save_domain", "_do_restore_domain", "_do_destroy_domain",
     "_do_suspend_domain", "_do_resume_domain", "_do_run_domain",
     "_do_shutdown_domain", "_do_reboot_domain", "_do_reset_domain",
     "_do_delete_domain", "_do_show_clone", "_do_show_migrate"}

\* C9: no domain action handler lets a failure of its dispatch reach the event
\* loop: whatever fails, the lookup of the connection or of the VM included,
\* the handler returns without raising.
C9_DispatchNeverRaises ==
    lastOp.op \in ActionHandlers => ~lastOp.raised

\* -------------------------------------------------------------------- C10
\* The call logged an exception.
Logged(ev) == \E i \in DOMAIN ev : ev[i][1] = "logging.exception"

\* What a finished connect_to_uri call must look like.
ConnectAnswer ==
    /\ ~lastOp.raised
    /\ IF Logged(lastOp.ev)
       THEN lastOp.ret = 0
       ELSE /\ lastOp.ret # 0
            /\ lastOp.arg \in DOMAIN conns
            /\ lastOp.ret = conns[lastOp.arg].conn
            /\ lastOp.arg \in Range(conn_uris)

\* C10: connect_to_uri never raises to its caller; a failure while adding the
\* entry, persisting the URI, setting autoconnect or opening the connection is
\* logged and answered with None (0), and a call without failure returns the
\* connection registered for the URI.  In particular a call in which nothing
\* fails logs nothing, and a call whose conn.open() raises logs and returns
\* None.
C10_ConnectNeverRaises ==
    /\ [](lastOp.op = "connect_to_uri" => ConnectAnswer)
    /\ [][\A uri \in URIS, a \in AutoconnectArgs, d \in BOOLEAN :
            /\ connect_to_uri(uri, a, d, "none") =>
                  (~Logged(lastOp'.ev) /\ lastOp'.ret # 0)
            /\ connect_to_uri(uri, a, TRUE, "conn.open") =>
                  (Logged(lastOp'.ev) /\ lastOp'.ret = 0
                   /\ ~lastOp'.raised)]_vars

\* A connect_to_uri whose conn.open() failed after the entry was added and the
\* URI persisted: the failure was logged and None returned.
C10_Witness ==
    /\ lastOp.op = "connect_to_uri"
    /\ ~lastOp.raised
    /\ lastOp.ret = 0
    /\ Logged(lastOp.ev)
    /\ lastOp.ev[1] = <<"emit", "conn-added", lastOp.arg>>
    /\ lastOp.arg \in DOMAIN conns

\* -------------------------------------------------------------------- C11
\* What a connect_to_uri(uri, a, d) in which nothing fails leaves behind.
ConnectedTo(uri, a, d) ==
    /\ uri \in DOMAIN conns'
    /\ IF uri \in DOMAIN conns
       THEN conns' = conns
       ELSE /\ DOMAIN conns' = DOMAIN conns \cup {uri}
            /\ \A u \in DOMAIN conns : conns'[u] = conns[u]
    /\ Count(conn_uris', uri) = 1
    /\ Remove(conn_uris', uri) = Remove(conn_uris, uri)
    /\ a = "True" => uri \in conn_autoconnect'
    /\ a = "False" => uri \notin conn_autoconnect'
    /\ a = "None" => conn_autoconnect' = conn_autoconnect
    /\ conn_autoconnect' \ {uri} = conn_autoconnect \ {uri}
    /\ LET c == conns'[uri].conn
           before == IF uri \in DOMAIN conns THEN connState[c]
                     ELSE "disconnected"
       IN  /\ d => connState'[c] = (IF before = "disconnected"
                                    THEN "connecting" ELSE before)
           /\ d => Count(lastOp'.ev, <<"conn.open", uri, "">>) = 1
           /\ ~d => connState'[c] = before
           /\ ~d => Count(lastOp'.ev, <<"conn.open", uri, "">>) = 0
           /\ \A x \in ConnIds \ {c} :
                 connState'[x] \in {connState[x], "free"}

\* C11: connect_to_uri(uri, autoconnect, do_start) in which nothing fails
\* leaves exactly one registry entry for uri (a repeated call keeps the entry
\* it finds) and the URI in the persisted list exactly once; autoconnect=True
\* sets the flag, autoconnect=None leaves it unchanged; do_start starts the
\* open of the connection (it is connecting), do_start=False opens nothing.
C11_ConnectToUri ==
    [][lastOp'.op = "connect_to_uri" =>
         \A uri \in URIS, a \in AutoconnectArgs, d \in BOOLEAN :
            connect_to_uri(uri, a, d, "none") => ConnectedTo(uri, a, d)]_vars

\* From an empty registry, connect_to_uri(uri, autoconnect=True) added the one
\* entry, persisted the URI, set autoconnect and started the open.
C11_Witness ==
    /\ lastOp.op = "connect_to_uri"
    /\ lastOp.ev = << <<"emit", "conn-added", lastOp.arg>>,
                      <<"config.add_conn", lastOp.arg, "">>,
                      <<"set_autoconnect", lastOp.arg, "True">>,
                      <<"conn.open", lastOp.arg, "">> >>
    /\ DOMAIN conns = {lastOp.arg}
    /\ conn_uris = <<lastOp.arg>>
    /\ lastOp.arg \in conn_autoconnect
    /\ connState[conns[lastOp.arg].conn] = "connecting"
    /\ lastOp.ret = conns[lastOp.arg].conn

\* -------------------------------------------------------------------- C12
\* C12: in every run of consecutive skipped ticks the first skip sets the slow
\* flag and logs the slow warning, once, and every later skip of the run logs
\* nothing.
C12_SlowWarningOncePerRun ==
    [][SkippedTick =>
         /\ _tick_thread_slow'
         /\ lastOp'.ev = IF skipRun = 0
                         THEN << <<"logging.debug", "Tick is slow", "">> >>
                         ELSE <<>>]_vars

\* -------------------------------------------------------------------- C13
\* C13: the slow flag is reset by a tick that is not skipped: once the last
\* tick started a refresh pass and that pass has completed, the flag is clear,
\* so that the first skip of the next slow period logs again.
C13_SlowFlagReset ==
    (/\ skipRun = 0
     /\ _tick_thread # 0
     /\ threads[_tick_thread].pc = "done")
    => ~_tick_thread_slow

\* -------------------------------------------------------------------- C14
\* The calls of a start: the restore-start of a VM with saved state, the
\* question put to the user with the answer given, the removal of the saved
\* state, the start action entered again, a regular start.
RestoreStart == <<"call", "vm.startup", "restore">>
AskDiscard(answer) == <<"src.err.show_err", "Error restoring domain", answer>>
RemoveSaved(outcome) == <<"call", "vm.removeSavedImage", outcome>>
ReenterRun == <<"enter", "_do_run_domain", "">>
ColdStart == <<"call", "vm.startup", "">>

\* What the start of a VM with saved state must do, by what its collaborators
\* do: the restore (i.res), the user's answer (i.discard), the removal
\* (i.remove) and the regular start entered afterwards (i.res2).
RunWithSavedState(i, ev) ==
    IF i.res = "ok" THEN ev = <<RestoreStart>>
    ELSE IF ~i.discard THEN ev = <<RestoreStart, AskDiscard("no")>>
    ELSE IF i.remove = "fail"
    THEN /\ SubSeq(ev, 1, 3) = <<RestoreStart, AskDiscard("yes"),
                                 RemoveSaved("raise")>>
         /\ Len(ev) = 4
         /\ ev[4][1] = "src.err.show_err"
         /\ ReenterRun \notin Range(ev)
         /\ ColdStart \notin Range(ev)
    ELSE /\ SubSeq(ev, 1, 5) = <<RestoreStart, AskDiscard("yes"),
                                 RemoveSaved(""), ReenterRun, ColdStart>>
         /\ Count(ev, RestoreStart) = 1
         /\ Len(ev) = IF i.res2 = "fail" THEN 6 ELSE 5

\* C14: the start of a VM that has saved state is a restore-start; when it
\* fails the user is asked whether to discard the saved state; on yes the saved
\* state is removed first and the start action entered again after it, taking
\* the regular start; on no nothing is removed and nothing started; when the
\* removal fails that is reported and no start is attempted.
C14_RunWithSavedState ==
    [][lastOp'.op = "_do_run_domain" =>
         \A uri \in ActionUris, i \in RunInputs :
            (/\ i.saved
             /\ LookupVm(conns, uri, i.getvm) = ""
             /\ _do_run_domain(uri, i))
            => RunWithSavedState(i, lastOp'.ev)]_vars

\* The restore failed, the user accepted, the saved state was removed and the
\* start action, entered again, made a regular start.
C14_Witness ==
    /\ lastOp.op = "_do_run_domain"
    /\ lastOp.ev = <<RestoreStart, AskDiscard("yes"), RemoveSaved(""),
                     ReenterRun, ColdStart>>

\* -------------------------------------------------------------------- C15
\* The errors a call reported on the error surface, in order.
IsReport(e) == e[1] = "src.err.show_err"
Reported(ev) == SelectSeq(ev, IsReport)

\* The hypervisor reboot with its outcome, the emulated reboot, and the report
\* of the original reboot error.
Reboot(outcome) == <<"call", "vm.reboot", outcome>>
ManualReboot(outcome) == <<"call", "vm.manual_reboot", outcome>>
RebootErrReport == <<"src.err.show_err", "Error rebooting domain", "reboot_err">>
ManualRebootCalls(ev) == Count(ev, ManualReboot("ok")) + Count(ev, ManualReboot("fail"))

\* The position of event e in ev (0: not there).
IndexOf(ev, e) ==
    IF e \in Range(ev) THEN CHOOSE k \in DOMAIN ev : ev[k] = e ELSE 0

\* C15: a reboot that succeeds runs no fallback and reports nothing; a reboot
\* that fails as unsupported is followed by the emulated reboot, and if that
\* fails too the one error reported is the original reboot error; a reboot
\* that fails otherwise is reported directly, with no fallback.
C15_RebootFallback ==
    (lastOp.op = "_do_reboot_domain" /\ ~lastOp.raised) =>
       LET ev == lastOp.ev
       IN  /\ Reboot("ok") \in Range(ev) =>
                 (ManualRebootCalls(ev) = 0 /\ Reported(ev) = <<>>)
           /\ Reboot("error") \in Range(ev) =>
                 (ManualRebootCalls(ev) = 0 /\ Reported(ev) = <<RebootErrReport>>)
           /\ Reboot("nosupport") \in Range(ev) =>
                 /\ ManualRebootCalls(ev) = 1
                 /\ ManualReboot("fail") \in Range(ev) =>
                       /\ IndexOf(ev, Reboot("nosupport"))
                            < IndexOf(ev, ManualReboot("fail"))
                       /\ Reported(ev) = <<RebootErrReport>>
                 /\ ManualReboot("ok") \in Range(ev) =>
                       /\ IndexOf(ev, Reboot("nosupport"))
                            < IndexOf(ev, ManualReboot("ok"))
                       /\ Reported(ev) = <<>>
           /\ (\A o \in {"ok", "error", "nosupport"} : Reboot(o) \notin Range(ev))
                 => (ManualRebootCalls(ev) = 0 /\ Reported(ev) = <<>>)

\* The reboot was unsupported, the emulated reboot failed as well, and the
\* original reboot error was reported.
C15_Witness ==
    /\ lastOp.op = "_do_reboot_domain"
    /\ Reboot("nosupport") \in Range(lastOp.ev)
    /\ ManualReboot("fail") \in Range(lastOp.ev)
    /\ Reported(lastOp.ev) = <<RebootErrReport>>

\* -------------------------------------------------------------------- C16
\* How many dialogs of class cls a call constructed for uri.
Constructed(ev, cls, uri) == Count(ev, <<"construct", cls, uri>>)

\* The call wired the opened and closed signals of the dialog it made to the
\* window counter.
Wired(ev, opened, closed) ==
    /\ <<"connect", opened, "increment_window_counter">> \in Range(ev)
    /\ <<"connect", closed, "decrement_window_counter">> \in Range(ev)

\* A show-host request on a registered uri: the cached dialog is kept and
\* nothing is constructed, or one dialog is constructed, wired and cached.
HostGetOrCreate(uri, ev) ==
    /\ IF conns[uri].windowHost
       THEN /\ Constructed(ev, "vmmHost", uri) = 0
            /\ conns'[uri].windowHost
       ELSE /\ Constructed(ev, "vmmHost", uri) <= 1
            /\ conns'[uri].windowHost <=> Constructed(ev, "vmmHost", uri) = 1
            /\ conns'[uri].windowHost => Wired(ev, "host-opened", "host-closed")
    /\ conns' = [conns EXCEPT ![uri].windowHost = conns'[uri].windowHost]

\* The same for the clone dialog (which is not wired to the counter).
CloneGetOrCreate(uri, ev) ==
    /\ IF conns[uri].windowClone
       THEN /\ Constructed(ev, "vmmCloneVM", uri) = 0
            /\ conns'[uri].windowClone
       ELSE /\ Constructed(ev, "vmmCloneVM", uri) <= 1
            /\ conns'[uri].windowClone <=> Constructed(ev, "vmmCloneVM", uri) = 1
    /\ conns' = [conns EXCEPT ![uri].windowClone = conns'[uri].windowClone]

\* The same for the details dialog of VM uuid: the dialogs of the other VMs
\* and the other dialogs of the connection are untouched.
DetailsGetOrCreate(uri, uuid, ev) ==
    LET old == conns[uri].windowDetails
        new == conns'[uri].windowDetails
    IN  /\ IF uuid \in DOMAIN old
           THEN /\ Constructed(ev, "vmmDetails", uri) = 0
                /\ DOMAIN new = DOMAIN old
           ELSE /\ Constructed(ev, "vmmDetails", uri) <= 1
                /\ DOMAIN new = DOMAIN old \cup
                      (IF Constructed(ev, "vmmDetails", uri) = 1 THEN {uuid}
                       ELSE {})
                /\ uuid \in DOMAIN new =>
                      Wired(ev, "details-opened", "details-closed")
        /\ \A w \in DOMAIN old \ {uuid} : new[w] = old[w]
        /\ conns' = [conns EXCEPT ![uri].windowDetails = new]

\* C16: the dialog caches hold at most one instance per key: a show request
\* for a key already cached uses the cached dialog and constructs nothing, a
\* request for a key not cached constructs at most one dialog and caches it
\* under that key alone, and a new host or details dialog has its opened and
\* closed signals wired to the window counter.
C16_OneDialogPerKey ==
    [][/\ (lastOp'.op = "_do_show_host" /\ lastOp'.arg \in DOMAIN conns) =>
             HostGetOrCreate(lastOp'.arg, lastOp'.ev)
       /\ (lastOp'.op = "_do_show_clone" /\ lastOp'.arg \in DOMAIN conns) =>
             CloneGetOrCreate(lastOp'.arg, lastOp'.ev)
       /\ lastOp'.op = "_show_vm_helper" =>
             \A uri \in DOMAIN conns, uuid \in UUIDS, f \in DialogFaults :
                _show_vm_helper(uri, uuid, 0, FALSE, f) =>
                   DetailsGetOrCreate(uri, uuid, lastOp'.ev)]_vars

\* With the host, the clone and both details dialogs of the connection cached,
\* a further show request for a VM used its cached dialog.
C16_Witness ==
    /\ lastOp.op = "_show_vm_helper"
    /\ lastOp.arg \in DOMAIN conns
    /\ lastOp.ev = << <<"show", "windowDetails", lastOp.arg>> >>
    /\ DOMAIN conns[lastOp.arg].windowDetails = UUIDS
    /\ conns[lastOp.arg].windowHost
    /\ conns[lastOp.arg].windowClone

\* -------------------------------------------------------------------- C17
\* The dialog launchers.
Launchers ==
    {"_do_show_manager", "_do_show_host", "_show_vm_helper", "_do_show_clone",
     "_do_show_migrate"}

\* C17: no dialog launcher, the command-line entry points included, lets a
\* failure of looking up, constructing or showing its dialog propagate to its
\* caller: a launcher always returns without raising.
C17_LaunchersNeverRaise ==
    lastOp.op \in Launchers => ~lastOp.raised

\* -------------------------------------------------------------------- C18
\* The idle queue after the step is the queue before it with deferred
\* callbacks of the refresh worker appended.
OnlyDefers ==
    /\ Len(idle') >= Len(idle)
    /\ SubSeq(idle', 1, Len(idle)) = idle
    /\ \A k \in (Len(idle) + 1)..Len(idle') :
          idle'[k].kind \in {"show_err", "conn.close"}

\* C18: a step of the refresh worker changes neither the connection registry,
\* nor a dialog cache, nor the window counter, nor the state of a connection,
\* nor the error surface: all it does to the engine is append deferred
\* callbacks (an error dialog, the close of a connection) to the idle queue of
\* the event loop.
C18_WorkerOnlyDefers ==
    [][lastOp'.op = "_tick" =>
         /\ UNCHANGED <<conns, conn_uris, conn_autoconnect, connState, dialogs,
                        windows, windowManager, err, systray, timer, sources>>
         /\ OnlyDefers]_vars

\* The worker handled the failed refresh of an open connection: the close is
\* waiting in the idle queue and the connection is still open.
C18_Witness ==
    /\ lastOp.op = "_tick"
    /\ \E u \in DOMAIN conns :
          /\ lastOp.arg = u
          /\ connState[conns[u].conn] = "connecting"
          /\ idle # <<>>
          /\ idle[Len(idle)] = IdleItem("conn.close", conns[u].conn, 0)

\* -------------------------------------------------------------------- C19
\* The launchers that take the URI of a connection.
UriLaunchers ==
    {"_do_show_host", "_show_vm_helper", "_do_show_clone", "_do_show_migrate"}

\* The exception a launcher ended with: the one it raised, or the one its
\* except clause handed to the error dialog; "" when there was none.
FaultOf(ev) ==
    IF ev = <<>> THEN ""
    ELSE LET e == ev[Len(ev)]
         IN  IF e[1] = "raise" THEN e[2]
             ELSE IF e[1] = "src.err.show_err" THEN e[3]
             ELSE ""

\* C19: a launcher called with a URI the registry does not hold fails with the
\* not-found error of _lookup_conn ("Unknown connection URI", a RuntimeError)
\* and with no other fault, and leaves the registry and the dialog caches as
\* they were.
C19_UnknownUriIsNotFound ==
    [][(lastOp'.op \in UriLaunchers /\ lastOp'.arg \notin DOMAIN conns) =>
          /\ FaultOf(lastOp'.ev) = "RuntimeError"
          /\ conns' = conns
          /\ dialogs' = dialogs]_vars

\* -------------------------------------------------------------------- C20
\* C20: attaching a new observer to conn-added delivers to it, before connect
\* returns, exactly one conn-added event for every connection the registry
\* holds at that moment, and none for any other URI.
C20_ReplayToNewObserver ==
    [][lastOp'.op = "connect" =>
         \A cb \in Observers :
            connect("conn-added", cb) =>
               \A u \in URIS :
                  Count(lastOp'.ev, <<"conn-added", cb, u>>)
                     = (IF u \in DOMAIN conns THEN 1 ELSE 0)]_vars

\* An observer was attached to conn-added when another callback was attached
\* already and the registry held both connections: it got one event for each.
C20_Witness ==
    /\ lastOp.op = "connect"
    /\ lastOp.arg = "conn-added"
    /\ Len(handlers) = 2
    /\ DOMAIN conns = URIS
    /\ \A u \in URIS :
          Count(lastOp.ev, <<"conn-added", handlers[2], u>>) = 1

\* -------------------------------------------------------------------- C21
\* The preference that switches off the confirmation of each confirming
\* action.
ConfirmPref ==
    [_do_save_domain |-> "poweroff", _do_destroy_domain |-> "forcepoweroff",
     _do_suspend_domain |-> "pause", _do_shutdown_domain |-> "poweroff",
     _do_reboot_domain |-> "poweroff", _do_reset_domain |-> "forcepoweroff"]

\* The saves of a VM without managed save on a remote connection.
RemoteUnmanagedSaves ==
    {i \in [getvm : {"ok"}, managed : {FALSE}, remote : {TRUE},
            answer : BOOLEAN, dontask : BOOLEAN, path : BOOLEAN,
            jobinfo : BOOLEAN, cancel : {"no", "ok", "raise"},
            res : OpResults] : i \in SaveInputs}

IsCall(e) == e[1] = "call"
IsAsk(e) == e[1] = "chkbox_helper"
IsValErr(e) == e[1] = "src.err.val_err"

\* C21: a confirming action calls the hypervisor only after its confirmation
\* was accepted, or with the confirmation switched off by the persisted
\* preference; a declined confirmation ends the action with no hypervisor
\* call, no error report and the preference untouched; and a save on a remote
\* connection without managed save ends with the validation error alone,
\* before any confirmation.
C21_ConfirmBeforeCall ==
    [][lastOp'.op \in DOMAIN ConfirmPref =>
         LET ev == lastOp'.ev
             pref == ConfirmPref[lastOp'.op]
             yes == <<"chkbox_helper", pref, "yes">>
             no == <<"chkbox_helper", pref, "no">>
         IN  /\ SelectSeq(ev, IsCall) # <<>> =>
                   IF pref \in confirm THEN ev[1] = yes
                   ELSE SelectSeq(ev, IsAsk) = <<>>
             /\ Count(ev, no) > 0 => ev = <<no>> /\ confirm' = confirm
             /\ SelectSeq(ev, IsValErr) # <<>> =>
                   Len(ev) = 1 /\ confirm' = confirm
             /\ (lastOp'.op = "_do_save_domain"
                    /\ lastOp'.arg \in DOMAIN conns) =>
                   \A i \in RemoteUnmanagedSaves :
                      _do_save_domain(lastOp'.arg, i)
                      => SelectSeq(ev, IsValErr) # <<>>]_vars

\* A confirmation that was asked and declined: the action ended there.
C21_Witness ==
    /\ lastOp.op \in DOMAIN ConfirmPref
    /\ lastOp.ev = << <<"chkbox_helper", ConfirmPref[lastOp.op], "no">> >>

\* -------------------------------------------------------------------- C22
\* The saves that reach the save job: the VM is found, the save is not
\* rejected, the confirmation is accepted and a path is there.
SavesRun ==
    {i \in [getvm : {"ok"}, managed : BOOLEAN, remote : {FALSE},
            answer : {TRUE}, dontask : BOOLEAN, path : {TRUE},
            jobinfo : BOOLEAN, cancel : {"no", "ok", "raise"},
            res : OpResults] : i \in SaveInputs}

WithCancelCb == <<"vmmAsyncJob", "cancel_cb", "">>
WithoutCancelCb == <<"vmmAsyncJob", "no cancel_cb", "">>
AbortJob(outcome) == <<"call", "vm.abort_job", outcome>>
CancelWarning == <<"asyncjob.show_warning", "Error cancelling save job", "">>
JobCanceled == <<"job_canceled", "", "">>

\* C22: the save job is created with a cancel callback exactly when the VM
\* supports job info; a cancel calls vm.abort_job() and marks the job canceled
\* when the abort returned; when the abort raised, the warning is shown and
\* the job is not marked canceled; without the callback nothing is aborted.
C22_SaveCancel ==
    [][(lastOp'.op = "_do_save_domain" /\ lastOp'.arg \in DOMAIN conns) =>
         \A i \in SavesRun :
            _do_save_domain(lastOp'.arg, i) =>
               LET ev == lastOp'.ev
               IN  /\ Count(ev, WithCancelCb) = (IF i.jobinfo THEN 1 ELSE 0)
                   /\ Count(ev, WithoutCancelCb) = (IF i.jobinfo THEN 0 ELSE 1)
                   /\ Count(ev, AbortJob("")) =
                         (IF i.jobinfo /\ i.cancel = "ok" THEN 1 ELSE 0)
                   /\ Count(ev, AbortJob("raise")) =
                         (IF i.jobinfo /\ i.cancel = "raise" THEN 1 ELSE 0)
                   /\ Count(ev, JobCanceled) = Count(ev, AbortJob(""))
                   /\ Count(ev, CancelWarning) = Count(ev, AbortJob("raise"))]_vars

\* A save was cancelled and the abort raised: the warning was shown and the job
\* was not marked canceled.
C22_Witness ==
    /\ lastOp.op = "_do_save_domain"
    /\ Count(lastOp.ev, WithCancelCb) = 1
    /\ Count(lastOp.ev, AbortJob("raise")) = 1
    /\ Count(lastOp.ev, CancelWarning) = 1
    /\ Count(lastOp.ev, JobCanceled) = 0

\* -------------------------------------------------------------------- C23
\* The details dialog of a VM as the cache holds it; a dialog that does not
\* exist yet is not visible.
DetailsOf(cs, uri, uuid) ==
    IF uuid \in DOMAIN cs[uri].windowDetails
    THEN cs[uri].windowDetails[uuid]
    ELSE [visible |-> FALSE, page |-> "none"]

ShowDetails(uri) == <<"show", "windowDetails", uri>>
IsActivate(e) == e[1] = "activate"

\* C23: a call of _show_vm_helper in which nothing fails shows the dialog; it
\* activates the requested page (the default page when none is given) when
\* the dialog was not visible or the force flag is set, and otherwise
\* activates nothing and leaves the dialog on the page it was on.
C23_NavigateUnlessVisible ==
    [][(lastOp'.op = "_show_vm_helper" /\ lastOp'.arg \in DOMAIN conns) =>
         \A v \in VMS, p \in PageArgs, fp \in BOOLEAN :
            _show_vm_helper(lastOp'.arg, v, p, fp, "none") =>
               LET u == lastOp'.arg
                   before == DetailsOf(conns, u, v)
                   after == DetailsOf(conns', u, v)
                   ev == lastOp'.ev
               IN  /\ after.visible
                   /\ Count(ev, ShowDetails(u)) = 1
                   /\ IF fp \/ ~before.visible
                      THEN /\ after.page = PageOf(p)
                           /\ SelectSeq(ev, IsActivate)
                                 = << <<"activate", PageOf(p), u>> >>
                      ELSE /\ after.page = before.page
                           /\ SelectSeq(ev, IsActivate) = <<>>]_vars

\* A dialog that was visible on the console page was shown again without the
\* force flag: nothing was activated and it is still on the console page.
C23_Witness ==
    /\ lastOp.op = "_show_vm_helper"
    /\ lastOp.ret = 1
    /\ lastOp.ev = <<ShowDetails(lastOp.arg)>>
    /\ \E v \in VMS :
          /\ DetailsOf(conns, lastOp.arg, v).visible
          /\ DetailsOf(conns, lastOp.arg, v).page = "console"

\* -------------------------------------------------------------------- C24
\* C24: whatever interval changes re-arm the timer, exactly one timeout that
\* calls tick() is armed and it is the one self.timer names; a re-arm removes
\* the timeout that was armed and arms another.
C24_OneTimerArmed ==
    /\ [](sources = {timer})
    /\ [][lastOp'.op = "reschedule_timer" =>
            /\ timer \notin sources'
            /\ timer' \in sources']_vars

\* The timer was re-armed and the new timeout has fired: it is the only one.
C24_Witness ==
    /\ lastOp.op = "timeout"
    /\ timer = 2
    /\ sources = {2}

\* -------------------------------------------------------------------- C25
\* C25: when the refresh worker comes to a URI of its pass that the event loop
\* has removed from the registry in the meantime, the worker does not fault:
\* the step of _tick for that URI raises nothing.
C25_RemovedConnDoesNotFaultWorker ==
    (/\ lastOp.op = "_tick"
     /\ lastOp.arg \in URIS
     /\ lastOp.arg \notin DOMAIN conns)
    => ~lastOp.raised

\* -------------------------------------------------------------------- C26
\* C26: when the event loop runs a deferred error notification of the refresh
\* worker, the error surface is still there (the call does not raise), and the
\* message shown is the one of the connection whose refresh faulted, which is
\* the connection whose close was queued right behind the notification.
C26_DeferredErrorFaithful ==
    [][lastOp'.op = "show_err" =>
         /\ ~lastOp'.raised
         /\ \A u \in DOMAIN conns :
               (Len(idle) >= 2 /\ idle[2] = CloseOf(conns, u)) =>
                  lastOp'.ev = << <<"self.err.show_err", u, "">> >>]_vars

\* -------------------------------------------------------------------- C27
\* C27: attaching a further observer to conn-added delivers conn-added to no
\* observer that was attached before: every event a call of connect delivers
\* goes to the callback that call attached.
C27_NoRedeliveryToEarlierObservers ==
    [][lastOp'.op = "connect" =>
         \A k \in DOMAIN lastOp'.ev :
            lastOp'.ev[k][2] = handlers'[Len(handlers')]]_vars

\* -------------------------------------------------------------------- C28
DetailsCleanup(uri, uuid) == <<"details.cleanup", uri, uuid>>
CloseCreate(uri) == <<"close", "windowCreate", uri>>

\* C28: when a registered connection reports a state other than active or
\* connecting, every details dialog cached for it is cleaned up once and its
\* details cache ends empty, and the create dialog is closed exactly when it
\* exists and is bound to that connection; the entry's connection, host and
\* clone dialogs and the entries of the other connections stay as they were.
\* A report of active or connecting changes nothing.  A vm-removed event
\* cleans up and deletes the details dialog of that VM alone.
C28_StateChangeFrame ==
    /\ [][(lastOp'.op = "_do_conn_changed" /\ lastOp'.arg \in DOMAIN conns) =>
            \A u \in {lastOp'.arg}, st \in {connState'[conns[lastOp'.arg].conn]},
               b \in CreateConns :
               _do_conn_changed(u, st, b) =>
                  /\ dialogs' = dialogs
                  /\ IF st \in {"active", "connecting"}
                     THEN conns' = conns /\ lastOp'.ev = <<>>
                     ELSE /\ DOMAIN conns'[u].windowDetails = {}
                          /\ conns' = [conns EXCEPT ![u].windowDetails = <<>>]
                          /\ \A v \in UUIDS :
                                Count(lastOp'.ev, DetailsCleanup(u, v)) =
                                   (IF v \in DOMAIN conns[u].windowDetails
                                    THEN 1 ELSE 0)
                          /\ Count(lastOp'.ev, CloseCreate(u)) =
                                (IF "windowCreate" \in dialogs /\ b = u
                                 THEN 1 ELSE 0)
                          /\ Len(lastOp'.ev) =
                                Cardinality(DOMAIN conns[u].windowDetails)
                                + Count(lastOp'.ev, CloseCreate(u))]_vars
    /\ [][(lastOp'.op = "_do_vm_removed" /\ lastOp'.arg \in DOMAIN conns) =>
            \A u \in {lastOp'.arg}, v \in UUIDS :
               _do_vm_removed(u, v) =>
                  /\ conns' = [conns EXCEPT ![u].windowDetails = Del(@, v)]
                  /\ dialogs' = dialogs
                  /\ lastOp'.ev =
                        (IF v \in DOMAIN conns[u].windowDetails
                         THEN <<DetailsCleanup(u, v)>> ELSE <<>>)]_vars

\* A connection with two cached details dialogs, a host dialog and the create
\* dialog bound to it went inactive: both details dialogs were cleaned up,
\* the create dialog was closed and the host dialog is still cached.
C28_Witness ==
    /\ lastOp.op = "_do_conn_changed"
    /\ Len(lastOp.ev) = 3
    /\ Count(lastOp.ev, CloseCreate(lastOp.arg)) = 1
    /\ conns[lastOp.arg].windowHost
    /\ DOMAIN conns[lastOp.arg].windowDetails = {}
    /\ connState[conns[lastOp.arg].conn] = "inactive"

\* An exit_app that finds the application not yet in cleanup, so that _cleanup
\* runs.
ExitCleansUp == lastOp'.op = "exit_app" /\ err

\* The teardown call was made in the events ev, whether it returned or raised.
Attempted(ev, call) ==
    \/ call \in Range(ev)
    \/ <<"cleanup raised", call[2], call[3]>> \in Range(ev)

\* Exit empties the registry and makes every teardown call of every
\* registered connection: its host, clone and details dialogs and the
\* connection itself.
ExitTeardown ==
    ExitCleansUp =>
        /\ conns' = <<>>
        /\ \A uri \in DOMAIN conns :
              \A i \in DOMAIN CleanupCalls(conns, uri) :
                  Attempted(lastOp'.ev, CleanupCalls(conns, uri)[i])

\* Exit forgets nothing: no conn-removed signal, and the persisted URI list and
\* autoconnect flags are as they were.
ExitFrame ==
    lastOp'.op = "exit_app" =>
        /\ \A e \in Range(lastOp'.ev) :
              ~(e[1] = "emit" /\ e[2] = "conn-removed")
        /\ \A e \in Range(lastOp'.ev) : e[1] # "config.remove_conn"
        /\ conn_uris' = conn_uris
        /\ conn_autoconnect' = conn_autoconnect

\* A step that takes a URI out of the persisted list is a remove_conn of that
\* URI.
OnlyRemoveConnForgets ==
    \A u \in Range(conn_uris) \ Range(conn_uris') :
        lastOp'.op = "remove_conn" /\ lastOp'.arg = u

\* The part of C29 about persistence alone.
ExitForgetsNothing == [][ExitFrame /\ OnlyRemoveConnForgets]_vars

\* C29: application exit empties the registry and tears down every connection
\* and its dialogs, but forgets no connection: it emits no conn-removed signal
\* and leaves the persisted URI list and the autoconnect flags unchanged; a
\* URI leaves persisted storage only by remove_conn.
C29_ExitTearsDownForgetsNothing ==
    [][ExitTeardown /\ ExitFrame /\ OnlyRemoveConnForgets]_vars

====
